---- MODULE Spec2Model ----
(***************************************************************************)
(* Swedish Monster Spotter: the rules engine (monster.js), the simulation  *)
(* engine (spottingCalculator.js), the calendar/time oracle (time.js) and  *)
(* the event handlers that trigger a recomputation (app.js, listeners.js,  *)
(* debugPanel.js, monsterPanel.js).                                        *)
(*                                                                         *)
(* JavaScript numbers that carry probabilities are modelled as exact       *)
(* rationals <<n, d>> (d > 0, lowest terms).  Strings whose characters the *)
(* code inspects (the date seed, monster ids, the forced time) are         *)
(* sequences of one-character strings; feature codes "P.PPL" are the pair  *)
(* <<"P", "PPL">> and a class-level code "T" is <<"T">>.                   *)
(***************************************************************************)
EXTENDS Integers, Sequences, FiniteSets, TLC

VARIABLES
    monsters,             \* appState.monsters: sequence of Monster instances
    currentDate,          \* appState.currentDate: a UTC instant [y, m, d, tod], or the Invalid Date
    debugState,           \* debugState: multiplier, forceTime, forceFullMoon, forceSeason, forceHalloween
    now,                  \* the caller's local wall clock, minutes past midnight
    spottedMonstersData,  \* appState.spottedMonstersData: id -> output record
    lastRun,              \* history: the environment the last recomputation read, <<>> before it
    phase,                \* "loaded" until initializeApp has run, then "running"
    call                  \* a direct call of a pure function: [fn, arg, ret]

vars == <<monsters, currentDate, debugState, now, spottedMonstersData, lastRun, phase, call>>

\* A JavaScript number that may be NaN
NaN == [nan |-> TRUE, v |-> 0]
Num(v) == [nan |-> FALSE, v |-> v]

-----------------------------------------------------------------------------
(* Exact rational arithmetic for JavaScript numbers.                       *)

Abs(x) == IF x < 0 THEN -x ELSE x

RECURSIVE GCD(_, _)
GCD(a, b) == IF b = 0 THEN a ELSE GCD(b, a % b)

\* n/d in lowest terms with a positive denominator, g the gcd of |n| and |d|
Reduce(n, d, g) == <<n \div g, d \div g>>
Q(n, d) == Reduce(IF d < 0 THEN -n ELSE n, Abs(d), GCD(Abs(n), Abs(d)))

QInt(k) == <<k, 1>>
QAdd(a, b) == Q(a[1] * b[2] + b[1] * a[2], a[2] * b[2])
QSub(a, b) == Q(a[1] * b[2] - b[1] * a[2], a[2] * b[2])
NonZero(g) == IF g = 0 THEN 1 ELSE g
\* (a[1] / h1) * (b[1] / h2) over (a[2] / h2) * (b[2] / h1)
CrossReduced(a, b, h1, h2) ==
    Q((a[1] \div h1) * (b[1] \div h2), (a[2] \div h2) * (b[2] \div h1))
\* cross-reduce first so that products stay small
QMul(a, b) ==
    CrossReduced(a, b, NonZero(GCD(Abs(a[1]), b[2])), NonZero(GCD(Abs(b[1]), a[2])))
\* (rationals are kept in lowest terms: equal values are equal pairs)
QLt(a, b) == a # b /\ a[1] * b[2] < b[1] * a[2]
QLe(a, b) == a = b \/ a[1] * b[2] <= b[1] * a[2]
QMax(a, b) == IF QLt(a, b) THEN b ELSE a
QMin(a, b) == IF QLt(b, a) THEN b ELSE a
QZero == QInt(0)
QOne == QInt(1)

\* Math.floor of a rational
QFloor(a) == a[1] \div a[2]

-----------------------------------------------------------------------------
(* Sequence helpers.                                                       *)

Includes(seq, x) == \E i \in 1..Len(seq) : seq[i] = x

RECURSIVE Join(_, _)
\* Array.prototype.join on an array of strings (sequences of characters)
Join(parts, sep) ==
    IF Len(parts) = 0 THEN <<>>
    ELSE IF Len(parts) = 1 THEN parts[1]
    ELSE parts[1] \o sep \o Join(Tail(parts), sep)

-----------------------------------------------------------------------------
(* config.js                                                               *)

\* TIME_PERIODS, in the object's insertion order (the order for..in visits)
PeriodNames ==
    <<"Midnight", "Late Night", "Early Morning", "Morning", "Day", "Evening", "Night">>

TIME_PERIODS ==
    [p \in {PeriodNames[i] : i \in 1..Len(PeriodNames)} |->
        CASE p = "Midnight"      -> [start |-> 0,    peak |-> 15,   end |-> 59,   multiplier |-> Q(25, 10)]
          [] p = "Late Night"    -> [start |-> 60,   peak |-> 150,  end |-> 239,  multiplier |-> Q(20, 10)]
          [] p = "Early Morning" -> [start |-> 240,  peak |-> 300,  end |-> 359,  multiplier |-> Q(14, 10)]
          [] p = "Morning"       -> [start |-> 360,  peak |-> 420,  end |-> 539,  multiplier |-> Q(12, 10)]
          [] p = "Day"           -> [start |-> 540,  peak |-> 720,  end |-> 1079, multiplier |-> Q(10, 10)]
          [] p = "Evening"       -> [start |-> 1080, peak |-> 1140, end |-> 1259, multiplier |-> Q(14, 10)]
          [] p = "Night"         -> [start |-> 1260, peak |-> 1350, end |-> 1439, multiplier |-> Q(22, 10)]]

GLOBAL_MODIFIERS ==
    [bonuses   |-> [witchingHour |-> Q(15, 100), midnight |-> Q(7, 100), fullMoon |-> Q(12, 100),
                    yule |-> Q(10, 100), midsummer |-> Q(25, 100)],
     penalties |-> [day |-> Q(4, 10), earlyMorning |-> Q(6, 10), evening |-> Q(6, 10),
                    night |-> Q(7, 10), lateNight |-> Q(6, 10)],
     events    |-> [halloween |-> Q(25, 10)]]

\* MODIFIER_DEFINITIONS[type][name].label; the conditions are ModifierCondition below
MODIFIER_LABELS ==
    [bonuses   |-> [witchingHour |-> "Witching Hour", midnight |-> "Midnight", fullMoon |-> "Full Moon",
                    yule |-> "Yule Season", midsummer |-> "Midsummer"],
     penalties |-> [day |-> "Daylight", evening |-> "Evening", earlyMorning |-> "Early Morning",
                    night |-> "Night", lateNight |-> "Late Night"]]

\* LOCATION_GROUPS (the groups the modelled monsters use)
LOCATION_GROUPS ==
    [forests_dense     |-> << <<"V", "FRST">>, <<"V", "FRSTF">> >>,
     forests_all       |-> << <<"V", "FRST">>, <<"V", "FRSTF">>, <<"V", "GROVE">>, <<"V", "HTH">>, <<"V", "SCRB">> >>,
     settlements_rural |-> << <<"P", "PPLF">>, <<"P", "PPLL">>, <<"S", "FRM">>, <<"S", "FRMT">>,
                              <<"S", "HUT">>, <<"S", "HUTS">>, <<"L", "LCTY">> >>,
     water_islands     |-> << <<"T", "ISL">>, <<"T", "ISLS">>, <<"T", "ISLET">>, <<"T", "ATOL">> >>]

-----------------------------------------------------------------------------
(* time.js                                                                 *)

\* const INACTIVE_TIME_PENALTY = 0.05
INACTIVE_TIME_PENALTY == Q(5, 100)

\* The environment one recomputation reads: appState.currentDate, debugState
\* and the wall clock.  `new Date()` is read anew at every call of
\* getCurrentTime; the clock may pass one minute boundary while a
\* recomputation runs: the reads at positions >= cross (cross > 0) see now2.
Env(date, debug, t1, t2, cross) ==
    [date |-> date, debug |-> debug, now |-> t1, now2 |-> t2, cross |-> cross]

\* new Date(): the local wall clock at the pos-th read of a recomputation
WallClock(env, pos) ==
    IF env.cross > 0 /\ pos >= env.cross THEN env.now2 ELSE env.now

Digits == <<"0", "1", "2", "3", "4", "5", "6", "7", "8", "9">>
IsDigit(c) == \E i \in 1..10 : Digits[i] = c
DigitValue(c) == (CHOOSE i \in 1..10 : Digits[i] = c) - 1

RECURSIVE DigitsToNat(_)
DigitsToNat(str) ==
    IF Len(str) = 0 THEN 0
    ELSE 10 * DigitsToNat(SubSeq(str, 1, Len(str) - 1)) + DigitValue(str[Len(str)])

\* Number(str) for strings over digits and other characters: "" is 0, a run
\* of digits is its value, anything else is NaN
Number(str) ==
    IF \A i \in 1..Len(str) : IsDigit(str[i]) THEN Num(DigitsToNat(str)) ELSE NaN

RECURSIVE Split(_, _)
\* String.prototype.split on a one-character separator
Split(str, sep) ==
    IF \A i \in 1..Len(str) : str[i] # sep THEN <<str>>
    ELSE LET k == CHOOSE i \in 1..Len(str) :
                    str[i] = sep /\ \A j \in 1..(i - 1) : str[j] # sep
         IN  <<SubSeq(str, 1, k - 1)>> \o Split(SubSeq(str, k + 1, Len(str)), sep)

\* String(n).padStart(2, '0') for n >= 0
RECURSIVE NatToDigits(_)
NatToDigits(n) ==
    IF n < 10 THEN <<Digits[n + 1]>> ELSE NatToDigits(n \div 10) \o <<Digits[(n % 10) + 1]>>
PadStart2(n) == IF n < 10 THEN <<"0">> \o NatToDigits(n) ELSE NatToDigits(n)

\* A Date whose time value is NaN: every getter returns NaN
InvalidDate == [y |-> 0, m |-> 0, d |-> 0, tod |-> 0, nan |-> TRUE]

\* getDateSeed: `${year}-${month}-${day}` from the UTC fields of appState.currentDate;
\* String(NaN) and String(NaN + 1).padStart(2, '0') are "NaN"
getDateSeed(date) ==
    IF date.nan
    THEN <<"N", "a", "N", "-", "N", "a", "N", "-", "N", "a", "N">>
    ELSE NatToDigits(date.y) \o <<"-">> \o PadStart2(date.m) \o <<"-">> \o PadStart2(date.d)

\* The time of day of a Date after setHours(hours, minutes, ...): NaN in either
\* makes the Date invalid; values out of range carry over (only the time of
\* day is kept).
SetHours(hours, minutes) ==
    IF hours.nan \/ minutes.nan THEN [nan |-> TRUE, h |-> 0, m |-> 0]
    ELSE LET tod == (hours.v * 60 + minutes.v) % 1440
         IN  [nan |-> FALSE, h |-> tod \div 60, m |-> tod % 60]

\* getCurrentTime: the simulated time (its local time of day).  forceTime is
\* `timeInput.value || null`, never the empty string: <<>> stands for null.
\* setHours leaves a copy of the Invalid Date invalid.
getCurrentTime(env, pos) ==
    IF env.date.nan THEN SetHours(NaN, NaN)
    ELSE IF env.debug.forceTime # <<>>
    THEN LET parts   == Split(env.debug.forceTime, ":")
             hours   == Number(parts[1])
             minutes == IF Len(parts) >= 2 THEN Number(parts[2]) ELSE NaN
         IN  SetHours(hours, minutes)
    ELSE LET t == WallClock(env, pos)
         IN  SetHours(Num(t \div 60), Num(t % 60))

\* timeToMins; NaN for an invalid Date
timeToMins(time) == IF time.nan THEN NaN ELSE Num(time.h * 60 + time.m)

\* The comparison with the end of the interval left out of it
InPeriodHalfOpen(mins, period) ==
    /\ ~mins.nan
    /\ mins.v >= period.start
    /\ mins.v < period.end

\* currentTimeInMins >= period.start && currentTimeInMins <= period.end
\* (every comparison with NaN is false)
InPeriod(mins, period) ==
    /\ ~mins.nan
    /\ mins.v >= period.start
    /\ mins.v <= period.end

RECURSIVE FirstPeriod(_, _)
FirstPeriod(mins, i) ==
    IF i > Len(PeriodNames) THEN "Day"
    ELSE IF InPeriod(mins, TIME_PERIODS[PeriodNames[i]]) THEN PeriodNames[i]
    ELSE FirstPeriod(mins, i + 1)

getCurrentPeriodName(env, pos) == FirstPeriod(timeToMins(getCurrentTime(env, pos)), 1)

isPeriod(periodName, env, pos) == getCurrentPeriodName(env, pos) = periodName

\* A night that begins at 22:00
isNightFromTen(env, pos) ==
    LET time == getCurrentTime(env, pos)
    IN  ~time.nan /\ (time.h >= 22 \/ time.h < 6)

isNight(env, pos) ==
    LET time == getCurrentTime(env, pos)
    IN  ~time.nan /\ (time.h >= 21 \/ time.h < 6)

\* isPeriod('Evening') || isNight(): two reads of the clock
isDark(env, pos) == isPeriod("Evening", env, pos) \/ isNight(env, pos + 1)

isWitchingHour(env, pos) ==
    LET time == getCurrentTime(env, pos)
    IN  ~time.nan /\ time.h = 0

\* Days from 1970-01-01 to the civil date y-m-d (Date.UTC)
DaysFromCivil(y, m, d) ==
    LET yy  == IF m <= 2 THEN y - 1 ELSE y
        era == yy \div 400
        yoe == yy - era * 400
        mp  == IF m > 2 THEN m - 3 ELSE m + 9
        doy == (153 * mp + 2) \div 5 + d - 1
        doe == yoe * 365 + yoe \div 4 - yoe \div 100 + doy
    IN  era * 146097 + doe - 719468

\* JavaScript's % (the result has the sign of the dividend)
JsRem(a, b) == IF a >= 0 THEN a % b ELSE -((-a) % b)

\* const LUNAR_MONTH = 29.530588853 days, in tenths of a second; the whole
\* seconds above it and the shortfall per lunation in 1/10000 s
LUNAR_MONTH_DS == 25514429
LUNAR_MONTH_CEIL_S == 2551443
LUNAR_MONTH_SHORT == 1231

moonIcons ==
    <<"new", "waxing crescent", "first quarter", "waxing gibbous",
      "full", "waning gibbous", "last quarter", "waning crescent">>

WrapMonth(r0) == IF r0 >= LUNAR_MONTH_DS THEN r0 - LUNAR_MONTH_DS ELSE r0

\* days % LUNAR_MONTH in tenths of a second, for |days| = a seconds and k0
\* the whole lunations in a (taken with the month rounded up, so one too few
\* at most)
LunarRemainder(a, k0) ==
    WrapMonth((a - k0 * LUNAR_MONTH_CEIL_S) * 10 + (k0 * LUNAR_MONTH_SHORT) \div 1000)

\* Math.round(phase * 8) for phase = sign * r / LUNAR_MONTH; Math.round(x) = floor(x + 1/2)
RoundPhase(nonNegative, r) ==
    IF nonNegative
    THEN (16 * r + LUNAR_MONTH_DS) \div (2 * LUNAR_MONTH_DS)
    ELSE (LUNAR_MONTH_DS - 16 * r) \div (2 * LUNAR_MONTH_DS)

\* Seconds from the reference new moon (2000-01-06 18:14 UTC) to the date
SecondsSinceNewMoon(date) ==
    (DaysFromCivil(date.y, date.m, date.d) - DaysFromCivil(2000, 1, 6)) * 86400
    + (date.tod - (18 * 60 + 14)) * 60

PhaseIndex(secs, a) ==
    JsRem(RoundPhase(secs >= 0, LunarRemainder(a, a \div LUNAR_MONTH_CEIL_S)), 8)

\* Math.round(phase * 8) % 8 where phase = (days % LUNAR_MONTH) / LUNAR_MONTH
MoonIndex(date) == PhaseIndex(SecondsSinceNewMoon(date), Abs(SecondsSinceNewMoon(date)))

\* moonIcons[index], undefined when the index is negative
IconAt(index) == IF index \in 0..7 THEN moonIcons[index + 1] ELSE "undefined"

\* (the index is NaN for the Invalid Date)
getMoonPhaseIcon(date) == IF date.nan THEN "undefined" ELSE IconAt(MoonIndex(date))

isFullMoon(env) ==
    IF env.debug.forceFullMoon # "null" THEN env.debug.forceFullMoon = "true"
    ELSE getMoonPhaseIcon(env.date) = "full"

isHalloween(env) ==
    IF env.debug.forceHalloween # "null" THEN env.debug.forceHalloween = "true"
    ELSE ~env.date.nan /\ env.date.m - 1 = 9 /\ env.date.d = 31

isMidsummer(env) == ~env.date.nan /\ env.date.m - 1 = 5 /\ env.date.d = 21

isYule(env) == ~env.date.nan /\ env.date.m - 1 = 11

getCurrentSeason(env) ==
    IF env.debug.forceSeason # "auto" THEN env.debug.forceSeason
    ELSE LET month == env.date.m - 1
         IN  IF env.date.nan THEN "Winter"
             ELSE IF month >= 2 /\ month <= 4 THEN "Spring"
             ELSE IF month >= 5 /\ month <= 7 THEN "Summer"
             ELSE IF month >= 8 /\ month <= 10 THEN "Fall"
             ELSE "Winter"

\* A ramp that rises and falls linearly
RampMultiplierLinear(period, mins) ==
    QAdd(QOne,
         QMul(QSub(period.multiplier, QOne),
              IF mins <= period.peak
              THEN Q(mins - period.start, period.peak - period.start)
              ELSE Q(period.end - mins, period.end - period.peak)))

\* The ramp of one period that contains the current minute
RampMultiplier(period, mins) ==
    LET maxBonus == QSub(period.multiplier, QOne)
        progress ==
            IF mins <= period.peak
            THEN LET duration == period.peak - period.start
                 IN  IF duration > 0 THEN Q(mins - period.start, duration) ELSE QOne
            ELSE LET duration == period.end - period.peak
                 IN  IF duration > 0 THEN Q(period.end - mins, duration) ELSE QOne
    IN  QAdd(QOne, QMul(maxBonus, QMul(progress, progress)))

\* if (currentMultiplier > highestMultiplier) highestMultiplier = currentMultiplier
Higher(highest, currentMultiplier) ==
    IF QLt(highest, currentMultiplier) THEN currentMultiplier ELSE highest

\* One turn of the forEach: an unknown period name, or a period that does
\* not contain the current minute, is skipped
PeriodTurn(periodName, mins, highest) ==
    IF periodName \in DOMAIN TIME_PERIODS /\ InPeriod(mins, TIME_PERIODS[periodName])
    THEN Higher(highest, RampMultiplier(TIME_PERIODS[periodName], mins.v))
    ELSE highest

RECURSIVE HighestMultiplier(_, _, _, _)
\* monsterActiveTimes.forEach
HighestMultiplier(monsterActiveTimes, i, mins, highest) ==
    IF i > Len(monsterActiveTimes) THEN highest
    ELSE HighestMultiplier(monsterActiveTimes, i + 1, mins,
                           PeriodTurn(monsterActiveTimes[i], mins, highest))

\* No penalty: the highest multiplier found, 0 when no period matched
NoPenalty(highestMultiplier) == highestMultiplier

\* return highestMultiplier === 0 ? INACTIVE_TIME_PENALTY : highestMultiplier
OrPenalty(highestMultiplier) ==
    IF highestMultiplier = QZero THEN INACTIVE_TIME_PENALTY ELSE highestMultiplier

\* getTimeMultiplier, given the simulated time its getCurrentTime() returned
TimeMultiplierAt(monsterActiveTimes, time) ==
    IF Includes(monsterActiveTimes, "any") THEN QOne
    ELSE OrPenalty(HighestMultiplier(monsterActiveTimes, 1, timeToMins(time), QZero))

getTimeMultiplier(monsterActiveTimes, env, pos) ==
    TimeMultiplierAt(monsterActiveTimes, getCurrentTime(env, pos))

-----------------------------------------------------------------------------
(* monster.js                                                              *)

\* A breakdown step; fields a step does not carry are "", QZero or <<>>
Step(type, label, subLabel, value) ==
    [type |-> type, label |-> label, subLabel |-> subLabel, value |-> value, reason |-> <<>>]
ImpossibleStep(reason) ==
    [type |-> "impossible", label |-> "", subLabel |-> "", value |-> QZero, reason |-> reason]

\* The reads of the clock one calculateSpottingData makes, in order, counted
\* from the monster's first read: isDark (two reads), isNight, getTimeMultiplier,
\* the Time step's getCurrentPeriodName, then one per bonus and per penalty.
ReadPos == [dark |-> 1, night |-> 3, timeMultiplier |-> 4, timeLabel |-> 5]
PosBonus(monster, i) == 5 + i
PosPenalty(monster, j) == 5 + Len(monster.bonuses) + j
ReadsOf(monster) == 5 + Len(monster.bonuses) + Len(monster.penalties)

\* The period a modifier's condition passes to isPeriod
ModifierPeriod ==
    [midnight |-> "Midnight", day |-> "Day", evening |-> "Evening",
     earlyMorning |-> "Early Morning", night |-> "Night", lateNight |-> "Late Night"]

\* MODIFIER_DEFINITIONS[type][modifierName].condition()
ModifierCondition(type, modifierName, env, pos) ==
    IF modifierName \in DOMAIN ModifierPeriod
    THEN isPeriod(ModifierPeriod[modifierName], env, pos)
    ELSE CASE modifierName = "witchingHour" -> isWitchingHour(env, pos)
           [] modifierName = "fullMoon"     -> isFullMoon(env)
           [] modifierName = "yule"         -> isYule(env)
           [] modifierName = "midsummer"    -> isMidsummer(env)

\* Names every object inherits from Object.prototype: MODIFIER_DEFINITIONS[type]
\* has a value for them that is not a definition
ObjectPrototypeNames ==
    {"constructor", "toString", "toLocaleString", "valueOf", "hasOwnProperty",
     "isPrototypeOf", "propertyIsEnumerable", "__proto__"}

\* The exception `definition.condition is not a function`
TypeError == [exception |-> "TypeError"]

\* this.overrides?.[type]?.[modifierName] || GLOBAL_MODIFIERS[type][modifierName]
ModifierValue(monster, modifierName, type) ==
    LET table == monster.overrides[type]
    IN  IF modifierName \in DOMAIN table /\ table[modifierName] # QZero
        THEN table[modifierName]
        ELSE GLOBAL_MODIFIERS[type][modifierName]

\* Monster._evaluateModifier: `definition && definition.condition()` for
\* definition = MODIFIER_DEFINITIONS[type]?.[modifierName]; an inherited
\* property is truthy and has no condition to call
evaluateModifier(monster, modifierName, type, env, pos) ==
    IF modifierName \notin DOMAIN MODIFIER_LABELS[type] /\ modifierName \in ObjectPrototypeNames
    THEN TypeError
    ELSE IF /\ modifierName \in DOMAIN MODIFIER_LABELS[type]
       /\ ModifierCondition(type, modifierName, env, pos)
    THEN [active |-> TRUE, value |-> ModifierValue(monster, modifierName, type),
          label |-> MODIFIER_LABELS[type][modifierName]]
    ELSE [active |-> FALSE, value |-> QZero, label |-> ""]

\* A check that stops at the first failed restriction
FailedRestrictionsFirstOnly(monster, env, base) ==
    IF Len(monster.restriction) = 0 THEN <<>>
    ELSE IF monster.restriction[1].requiresFullMoon /\ ~isFullMoon(env)
         THEN << <<"Full Moon">> >>
    ELSE IF monster.restriction[1].requiresDark /\ ~isDark(env, base + ReadPos.dark)
         THEN << <<"Darkness">> >>
    ELSE IF monster.restriction[1].requiresNight /\ ~isNight(env, base + ReadPos.night)
         THEN << <<"Night">> >>
    ELSE <<>>

\* Monster._checkRestrictions: the failed restrictions, in the order pushed
FailedRestrictions(monster, env, base) ==
    IF Len(monster.restriction) = 0 THEN <<>>
    ELSE LET r == monster.restriction[1]
         IN  (IF r.requiresFullMoon /\ ~isFullMoon(env) THEN << <<"Full Moon">> >> ELSE <<>>)
             \o (IF r.requiresDark /\ ~isDark(env, base + ReadPos.dark) THEN << <<"Darkness">> >> ELSE <<>>)
             \o (IF r.requiresNight /\ ~isNight(env, base + ReadPos.night) THEN << <<"Night">> >> ELSE <<>>)

\* return { met, reason } for the failed restrictions collected
RestrictionResult(failed) ==
    IF Len(failed) > 0
    THEN [met |-> FALSE, reason |-> <<"Requires: ">> \o Join(failed, <<", ">>)]
    ELSE [met |-> TRUE, reason |-> <<>>]

checkRestrictions(monster, env, base) ==
    RestrictionResult(FailedRestrictions(monster, env, base))

\* if (bonusInfo.active) { chance += bonusInfo.value; breakdown.push(...) }
\* (an exception thrown by _evaluateModifier ends the computation)
AddBonus(acc, bonusInfo) ==
    IF acc = TypeError \/ bonusInfo = TypeError THEN TypeError
    ELSE IF bonusInfo.active
    THEN [chance |-> QAdd(acc.chance, bonusInfo.value),
          breakdown |-> Append(acc.breakdown, Step("bonus", bonusInfo.label, "", bonusInfo.value))]
    ELSE acc

RECURSIVE ApplyBonuses(_, _, _, _, _)
\* this.bonuses.forEach: acc is [chance, breakdown]
ApplyBonuses(monster, i, env, base, acc) ==
    IF i > Len(monster.bonuses) THEN acc
    ELSE ApplyBonuses(monster, i + 1, env, base,
                      AddBonus(acc, evaluateModifier(monster, monster.bonuses[i], "bonuses", env,
                                                     base + PosBonus(monster, i))))

\* if (penaltyInfo.active) { chance *= penaltyInfo.value; breakdown.push(...) }
MultiplyPenalty(acc, penaltyInfo) ==
    IF acc = TypeError \/ penaltyInfo = TypeError THEN TypeError
    ELSE IF penaltyInfo.active
    THEN [chance |-> QMul(acc.chance, penaltyInfo.value),
          breakdown |-> Append(acc.breakdown, Step("penalty", penaltyInfo.label, "", penaltyInfo.value))]
    ELSE acc

RECURSIVE ApplyPenalties(_, _, _, _, _)
\* this.penalties.forEach
ApplyPenalties(monster, j, env, base, acc) ==
    IF j > Len(monster.penalties) THEN acc
    ELSE ApplyPenalties(monster, j + 1, env, base,
                        MultiplyPenalty(acc, evaluateModifier(monster, monster.penalties[j], "penalties",
                                                              env, base + PosPenalty(monster, j))))

\* A Halloween branch that records the base chance first
HalloweenBranchOnBase(monster) ==
    [chance |-> QMul(monster.spottingChance, GLOBAL_MODIFIERS.events.halloween),
     breakdown |-> <<Step("base", "Base Chance", "", monster.spottingChance),
                     Step("multiplier", "Global Multiplier", "", GLOBAL_MODIFIERS.events.halloween)>>]

\* The Halloween branch: chance *= GLOBAL_MODIFIERS.events.halloween
HalloweenBranch(monster) ==
    [chance |-> QMul(monster.spottingChance, GLOBAL_MODIFIERS.events.halloween),
     breakdown |-> <<Step("multiplier", "Global Multiplier", "", GLOBAL_MODIFIERS.events.halloween)>>]

\* let chance = this.spottingChance; breakdown.push({ type: 'base', ... })
BaseStep(monster) ==
    [chance |-> monster.spottingChance,
     breakdown |-> <<Step("base", "Base Chance", "", monster.spottingChance)>>]

\* if (!this.activeSeasons.includes(currentSeason)) { chance /= 2; ... }
SeasonStep(monster, acc, currentSeason) ==
    IF ~Includes(monster.activeSeasons, currentSeason)
    THEN [chance |-> QMul(acc.chance, Q(1, 2)),
          breakdown |-> Append(acc.breakdown, Step("multiplier", "Season", currentSeason, Q(1, 2)))]
    ELSE acc

\* if (timeMultiplier !== 1.0) { chance *= timeMultiplier; ... getCurrentPeriodName() ... }
TimeStep(acc, timeMultiplier, env, pos) ==
    IF timeMultiplier # QOne
    THEN [chance |-> QMul(acc.chance, timeMultiplier),
          breakdown |-> Append(acc.breakdown,
                               Step("multiplier", "Time", getCurrentPeriodName(env, pos), timeMultiplier))]
    ELSE acc

\* A pipeline that multiplies by the penalties before it adds the bonuses
ModifierPipelinePenaltiesFirst(monster, env, base) ==
    ApplyBonuses(monster, 1, env, base,
        ApplyPenalties(monster, 1, env, base,
            TimeStep(SeasonStep(monster, BaseStep(monster), getCurrentSeason(env)),
                     getTimeMultiplier(monster.activeTime, env, base + ReadPos.timeMultiplier),
                     env, base + ReadPos.timeLabel)))

\* The else branch once the restrictions are met: base, season, time, bonuses, penalties
ModifierPipeline(monster, env, base) ==
    ApplyPenalties(monster, 1, env, base,
        ApplyBonuses(monster, 1, env, base,
            TimeStep(SeasonStep(monster, BaseStep(monster), getCurrentSeason(env)),
                     getTimeMultiplier(monster.activeTime, env, base + ReadPos.timeMultiplier),
                     env, base + ReadPos.timeLabel)))

\* No clamp
Unclamped(chance) == chance

\* Math.max(0, Math.min(chance, 1))
Clamp01(chance) == QMax(QZero, QMin(chance, QOne))

\* A debug multiplier that is applied and not recorded
DebugStepUnrecorded(acc, multiplier) ==
    [chance |-> QMul(acc.chance, multiplier), breakdown |-> acc.breakdown]

\* if (debugState.multiplier !== 1.0) { chance *= debugState.multiplier; ... }
DebugStep(acc, multiplier) ==
    IF multiplier # QOne
    THEN [chance |-> QMul(acc.chance, multiplier),
          breakdown |-> Append(acc.breakdown, Step("multiplier", "Debug Multiplier", "", multiplier))]
    ELSE acc

\* push instead of unshift: `final` comes last
ReturnPushed(finalChance, event, breakdown) ==
    [chance |-> finalChance, event |-> event,
     breakdown |-> breakdown \o <<Step("final", "Final Chance", "", finalChance)>>]

\* breakdown.unshift({ type: 'final', ... }); return { chance, event, breakdown }
Return(finalChance, event, breakdown) ==
    [chance |-> finalChance, event |-> event,
     breakdown |-> <<Step("final", "Final Chance", "", finalChance)>> \o breakdown]

\* The tail shared by both branches: clamp, unshift `final`
Finalize(acc, event) == Return(Clamp01(acc.chance), event, acc.breakdown)

\* The tail shared by both branches, from the debug multiplier on
Finish(acc, event, env) ==
    IF acc = TypeError THEN TypeError
    ELSE Finalize(DebugStep(acc, env.debug.multiplier), event)

\* The else branch, for the result of _checkRestrictions
RestrictedPipeline(monster, env, base, restriction) ==
    IF ~restriction.met
    THEN [chance |-> QZero, event |-> "null",
          breakdown |-> <<ImpossibleStep(restriction.reason)>>]
    ELSE Finish(ModifierPipeline(monster, env, base), "null", env)

\* A calculateSpottingData that checks the restrictions before Halloween
calculateSpottingDataRestricted(monster, env, base) ==
    IF ~checkRestrictions(monster, env, base).met
    THEN RestrictedPipeline(monster, env, base, checkRestrictions(monster, env, base))
    ELSE IF isHalloween(env)
    THEN Finish(HalloweenBranch(monster), "halloween", env)
    ELSE Finish(ModifierPipeline(monster, env, base), "null", env)

\* Monster.calculateSpottingData; base is the number of clock reads made
\* before this monster's first one
calculateSpottingData(monster, env, base) ==
    IF isHalloween(env)
    THEN Finish(HalloweenBranch(monster), "halloween", env)
    ELSE RestrictedPipeline(monster, env, base, checkRestrictions(monster, env, base))

-----------------------------------------------------------------------------
(* dataLoader.js: the location tables processLoadedData builds             *)

\* appState.allLocations, each with fullFeatureCode = `${featureClass}.${featureCode}`
allLocations ==
    << [geonameid |-> 1, featureClass |-> "V", featureCode |-> "FRST",
        latitude |-> Q(601, 10), longitude |-> Q(151, 10)],
       [geonameid |-> 2, featureClass |-> "V", featureCode |-> "FRST",
        latitude |-> Q(632, 10), longitude |-> Q(174, 10)],
       [geonameid |-> 3, featureClass |-> "T", featureCode |-> "ISL",
        latitude |-> Q(577, 10), longitude |-> Q(119, 10)],
       [geonameid |-> 4, featureClass |-> "T", featureCode |-> "MT",
        latitude |-> Q(679, 10), longitude |-> Q(185, 10)],
       [geonameid |-> 5, featureClass |-> "S", featureCode |-> "FRM",
        latitude |-> Q(584, 10), longitude |-> Q(155, 10)] >>

fullFeatureCode(loc) == <<loc.featureClass, loc.featureCode>>

\* appState.locationsByFeatureCode.get(code) || []
locationsByFeatureCode(code) ==
    SelectSeq(allLocations, LAMBDA loc : fullFeatureCode(loc) = code)

\* appState.locationsByFeatureClass.get(cls) || []
locationsByFeatureClass(cls) ==
    SelectSeq(allLocations, LAMBDA loc : loc.featureClass = cls)

-----------------------------------------------------------------------------
(* spottingCalculator.js                                                   *)

\* const maxSpotted = 40
maxSpotted == 40

\* Math.seedrandom(seed): a generator whose stream is a fixed function of the
\* seed string.  The library's ARC4 is replaced by a 16-bit linear
\* congruential generator keyed by a polynomial hash of the characters; a
\* call returns the top 8 bits of the new state, as a fraction of 256.
Alphabet ==
    <<"0", "1", "2", "3", "4", "5", "6", "7", "8", "9", "-", ":",
      "a", "b", "c", "d", "e", "f", "g", "h", "i", "j", "k", "l", "m",
      "n", "o", "p", "q", "r", "s", "t", "u", "v", "w", "x", "y", "z", "N">>
CharCode(c) == CHOOSE i \in 1..Len(Alphabet) : Alphabet[i] = c

RECURSIVE SeedHash(_, _)
SeedHash(str, h) ==
    IF Len(str) = 0 THEN h
    ELSE SeedHash(Tail(str), (h * 31 + CharCode(Head(str))) % 65536)

seedrandom(seed) == SeedHash(seed, 7)
RngNext(state) == (25173 * state + 13849) % 65536
\* the value a call returns, in [0, 1)
RngValue(state) == Q(state \div 256, 256)

\* One call composed with an affine map x -> (m[1] * x + m[2]) % 65536
LcgStep(m) == <<(25173 * m[1]) % 65536, (25173 * m[2] + 13849) % 65536>>

RECURSIVE LcgMaps(_, _)
\* the affine maps of 1, 2, ..., n further calls after the map m
LcgMaps(m, n) ==
    IF n = 0 THEN <<>>
    ELSE IF n = 1 THEN <<LcgStep(m)>>
    ELSE LET half  == n \div 2
             first == LcgMaps(m, half)
         IN  first \o LcgMaps(first[half], n - half)

\* One recomputation makes at most maxSpotted + 3 * maxSpotted calls.
LcgTable == LcgMaps(<<1, 0>>, 4 * maxSpotted)

\* (a * b) % 65536 without leaving 32 bits
MulMod16(a, b) == (a * (b % 256) + 256 * ((a * (b \div 256)) % 256)) % 65536

\* the generator's state after n calls of RngNext
RngState(state, n) == (MulMod16(LcgTable[n][1], state) + LcgTable[n][2]) % 65536

\* A generator: its seeded state and the number of calls made so far.
NewRng(seed) == [state |-> seedrandom(seed), calls |-> 0]
\* the value of the n-th call from now
RngCall(rng, n) == RngValue(RngState(rng.state, rng.calls + n))

\* Bands whose edges are one count late
getLikelihoodLate(count) ==
    IF count <= 1 THEN "Very Low"
    ELSE IF count <= 3 THEN "Low"
    ELSE IF count <= 6 THEN "Medium"
    ELSE "High"

getLikelihood(count) ==
    IF count <= 0 THEN "Very Low"
    ELSE IF count <= 2 THEN "Low"
    ELSE IF count <= 5 THEN "Medium"
    ELSE "High"

RECURSIVE AddCodes(_, _)
\* Set.prototype.add for each code, keeping insertion order
AddCodes(resolved, codes) ==
    IF Len(codes) = 0 THEN resolved
    ELSE AddCodes(IF Includes(resolved, Head(codes)) THEN resolved ELSE Append(resolved, Head(codes)),
                  Tail(codes))

RECURSIVE ResolveFeatureCodes(_, _)
\* monster.locations.forEach: a group name expands to its codes, anything else is a code
ResolveFeatureCodes(locIdentifiers, resolved) ==
    IF Len(locIdentifiers) = 0 THEN resolved
    ELSE LET locIdentifier == Head(locIdentifiers)
             codes == IF Len(locIdentifier) = 1 /\ locIdentifier[1] \in DOMAIN LOCATION_GROUPS
                      THEN LOCATION_GROUPS[locIdentifier[1]]
                      ELSE <<locIdentifier>>
         IN  ResolveFeatureCodes(Tail(locIdentifiers), AddCodes(resolved, codes))

RECURSIVE BuildLocationPool(_)
\* resolvedFeatureCodes.forEach: code.includes('.') picks the table
BuildLocationPool(codes) ==
    IF Len(codes) = 0 THEN <<>>
    ELSE LET code == Head(codes)
             found == IF Len(code) >= 2
                      THEN locationsByFeatureCode(code)
                      ELSE locationsByFeatureClass(code[1])
         IN  found \o BuildLocationPool(Tail(codes))

LocationPoolOf(monster) == BuildLocationPool(ResolveFeatureCodes(monster.locations, <<>>))

\* (rng() - 0.5) * 0.01
Jitter(r) == QMul(QSub(r, Q(1, 2)), Q(1, 100))

\* { ...baseLocation, lat: baseLocation.latitude + latJitter, lng: ... }
Jittered(baseLocation, latJitter, lngJitter) ==
    [geonameid |-> baseLocation.geonameid,
     featureClass |-> baseLocation.featureClass,
     featureCode |-> baseLocation.featureCode,
     latitude |-> baseLocation.latitude,
     longitude |-> baseLocation.longitude,
     lat |-> QAdd(baseLocation.latitude, latJitter),
     lng |-> QAdd(baseLocation.longitude, lngJitter)]

\* A pass that draws the longitude jitter before the latitude jitter
SpottedLocationLngFirst(locationPool, rng, i) ==
    Jittered(locationPool[QFloor(QMul(RngCall(rng, 3 * i + 1), QInt(Len(locationPool)))) + 1],
             Jitter(RngCall(rng, 3 * i + 3)),
             Jitter(RngCall(rng, 3 * i + 2)))

\* One pass of the for loop of generateMonsterLocations, the i-th (from 0)
SpottedLocation(locationPool, rng, i) ==
    Jittered(locationPool[QFloor(QMul(RngCall(rng, 3 * i + 1), QInt(Len(locationPool)))) + 1],
             Jitter(RngCall(rng, 3 * i + 2)),
             Jitter(RngCall(rng, 3 * i + 3)))

\* The only member of a one-element set: The({e}) is e, evaluated once
The(singleton) == CHOOSE r \in singleton : TRUE

\* Placements drawn from all locations, whatever the entity's habitat
generateMonsterLocationsAnywhere(monster, count, rng) ==
    IF count = 0 THEN [locations |-> <<>>, draws |-> 0]
    ELSE [locations |-> [i \in 1..count |-> SpottedLocation(allLocations, rng, i - 1)],
          draws |-> 3 * count]

\* generateMonsterLocations(monster, count, rng): the locations and the calls of rng made
generateMonsterLocations(monster, count, rng) ==
    IF count = 0 THEN [locations |-> <<>>, draws |-> 0]
    ELSE The({IF Len(locationPool) = 0 THEN [locations |-> <<>>, draws |-> 0]
              ELSE [locations |-> [i \in 1..count |-> SpottedLocation(locationPool, rng, i - 1)],
                    draws |-> 3 * count] :
              locationPool \in {LocationPoolOf(monster)}})

\* Trials that count a sighting when the value drawn is not below the chance
SightingRollsInverted(rng, chance) ==
    Cardinality({i \in 1..maxSpotted : ~QLt(RngCall(rng, i), chance)})

\* for (i = 0; i < maxSpotted; i++) if (monsterRNG() < chance) spottedCount++
SightingRolls(rng, chance) ==
    Cardinality({i \in 1..maxSpotted : QLt(RngCall(rng, i), chance)})

\* A seed that leaves the entity out of account: the id of the batch's
\* first entity for all
MonsterSeedOfFirst(dateSeed, batch, k) == dateSeed \o batch[1].id

\* new Math.seedrandom(dateSeed + monster.id)
MonsterSeed(dateSeed, batch, k) == dateSeed \o batch[k].id

\* The rest of the forEach body once monsterRNG and spottingData are known
Sightings(monster, monsterRNG, spottingData) ==
    IF spottingData = TypeError THEN TypeError
    ELSE IF QLe(spottingData.chance, QZero)
    THEN LET isImpossible == \E i \in 1..Len(spottingData.breakdown) :
                                 spottingData.breakdown[i].type = "impossible"
         IN  [count |-> 0, locations |-> <<>>,
              likelihood |-> IF isImpossible THEN "Impossible" ELSE "Very Low",
              currentChance |-> QZero,
              breakdown |-> spottingData.breakdown,
              event |-> spottingData.event,
              returned |-> spottingData.chance, draws |-> 0]
    ELSE The({The({[count |-> spottedCount, locations |-> placed.locations,
                    likelihood |-> getLikelihood(spottedCount),
                    currentChance |-> spottingData.chance,
                    breakdown |-> spottingData.breakdown,
                    event |-> spottingData.event,
                    returned |-> spottingData.chance,
                    draws |-> maxSpotted + placed.draws] :
                   placed \in {generateMonsterLocations(monster, spottedCount,
                                   [monsterRNG EXCEPT !.calls = maxSpotted])}}) :
              spottedCount \in {SightingRolls(monsterRNG, spottingData.chance)}})

\* The body of monsters.forEach for the k-th monster: calculatedData[monster.id].
\* Two history fields are added to the record: `returned`, the chance
\* calculateSpottingData returned, and `draws`, the calls of monsterRNG made.
SimulateMonster(batch, k, env, base) ==
    The({Sightings(batch[k], monsterRNG, spottingData) :
         monsterRNG \in {NewRng(MonsterSeed(getDateSeed(env.date), batch, k))},
         spottingData \in {calculateSpottingData(batch[k], env, base)}})

RECURSIVE ReadsBefore(_, _)
\* clock reads made for the monsters before the k-th
ReadsBefore(batch, k) ==
    IF k <= 1 THEN 0 ELSE ReadsBefore(batch, k - 1) + ReadsOf(batch[k - 1])

\* calculatedData, keyed by monster.id (a later monster with the same id
\* overwrites an earlier one)
CalculatedData(batch, env) ==
    [id \in {batch[k].id : k \in 1..Len(batch)} |->
        LET k == CHOOSE j \in 1..Len(batch) :
                    batch[j].id = id /\ \A l \in (j + 1)..Len(batch) : batch[l].id # id
        IN  SimulateMonster(batch, k, env, ReadsBefore(batch, k))]

\* calculateSpottedMonsters(monsters): calculatedData, unless
\* calculateSpottingData threw for a monster
calculateSpottedMonsters(batch, env) ==
    The({IF \E id \in DOMAIN calculatedData : calculatedData[id] = TypeError
         THEN TypeError
         ELSE calculatedData :
         calculatedData \in {CalculatedData(batch, env)}})

-----------------------------------------------------------------------------
(* Inputs: the entity definitions (monsters.json), dates, clock readings    *)
(* and override values the model draws from.                                *)

NoOverrides == [bonuses |-> <<>>, penalties |-> <<>>]
AllSeasons == <<"Spring", "Summer", "Fall", "Winter">>
NoRestriction == <<>>
Restriction(fullMoon, dark, night) ==
    <<[requiresFullMoon |-> fullMoon, requiresDark |-> dark, requiresNight |-> night]>>

\* new Monster(monsterData): the data's properties plus state = { isEnabled: true }
Monster(monsterData) ==
    [id |-> monsterData.id, spottingChance |-> monsterData.spottingChance,
     activeSeasons |-> monsterData.activeSeasons, activeTime |-> monsterData.activeTime,
     restriction |-> monsterData.restriction, bonuses |-> monsterData.bonuses,
     penalties |-> monsterData.penalties, overrides |-> monsterData.overrides,
     locations |-> monsterData.locations, state |-> [isEnabled |-> TRUE]]

MonsterData ==
    << [id |-> <<"t", "r", "o", "l", "l">>, spottingChance |-> Q(1, 10),
        activeSeasons |-> AllSeasons, activeTime |-> <<"Night", "Late Night">>,
        restriction |-> NoRestriction,
        bonuses |-> <<"fullMoon", "midnight">>, penalties |-> <<"day">>,
        overrides |-> NoOverrides,
        locations |-> << <<"forests_dense">> >>],
       [id |-> <<"v", "a", "r", "u", "l", "v">>, spottingChance |-> Q(1, 5),
        activeSeasons |-> AllSeasons, activeTime |-> <<"Night", "Midnight">>,
        restriction |-> Restriction(TRUE, FALSE, TRUE),
        bonuses |-> <<"witchingHour">>, penalties |-> <<>>,
        overrides |-> NoOverrides,
        locations |-> << <<"T">>, <<"T", "ISL">> >>],
       [id |-> <<"t", "o", "m", "t", "e">>, spottingChance |-> Q(1, 2),
        activeSeasons |-> <<"Winter">>, activeTime |-> <<"any">>,
        restriction |-> NoRestriction,
        bonuses |-> <<"yule", "midsummer", "bogus">>, penalties |-> <<"night">>,
        overrides |-> [bonuses |-> [yule |-> Q(3, 5)], penalties |-> <<>>],
        locations |-> << <<"S", "FRM">>, <<"nowhere">> >>],
       [id |-> <<"d", "r", "a", "u", "g">>, spottingChance |-> Q(1, 1),
        activeSeasons |-> <<"Fall", "Winter">>, activeTime |-> <<"Evening", "Dusk">>,
        restriction |-> Restriction(FALSE, TRUE, FALSE),
        bonuses |-> <<"fullMoon">>, penalties |-> <<"evening", "lateNight">>,
        overrides |-> [bonuses |-> [fullMoon |-> Q(-3, 2)], penalties |-> [evening |-> QZero]],
        locations |-> << <<"X", "NONE">> >>],
       [id |-> <<"v", "a", "t", "t", "e">>, spottingChance |-> QZero,
        activeSeasons |-> <<"Summer">>, activeTime |-> <<"Day", "Morning">>,
        restriction |-> NoRestriction,
        bonuses |-> <<"midsummer">>, penalties |-> <<"day">>,
        overrides |-> NoOverrides,
        locations |-> << <<"T", "ISL">>, <<"T">> >>] >>

\* appState.monsters = data.monsters.map(monsterData => new Monster(monsterData))
LoadMonsters(data) == [k \in 1..Len(data) |-> Monster(data[k])]

\* Dates: plain, Halloween, Midsummer with a full moon, Yule, Yule with a full
\* moon, and one before the reference new moon
DateList ==
    << [y |-> 2024, m |-> 3,  d |-> 10, tod |-> 0, nan |-> FALSE],
       [y |-> 2024, m |-> 10, d |-> 31, tod |-> 0, nan |-> FALSE],
       [y |-> 2024, m |-> 6,  d |-> 21, tod |-> 0, nan |-> FALSE],
       [y |-> 2024, m |-> 12, d |-> 25, tod |-> 0, nan |-> FALSE],
       [y |-> 2024, m |-> 12, d |-> 15, tod |-> 0, nan |-> FALSE],
       [y |-> 1999, m |-> 12, d |-> 25, tod |-> 0, nan |-> FALSE] >>
NumDates == 2
Dates == {DateList[i] : i \in 1..NumDates}

\* Values of the historical date input: the dates, the cleared input and a
\* year alone
DateInputs == {getDateSeed(d) : d \in Dates} \cup {<<>>, <<"2", "0", "2", "4">>}

\* Wall-clock readings, minutes past local midnight
ClockList == <<720, 1259, 1260, 1305, 30, 1350, 1100, 0, 150, 1380>>
NumClock == 3
ClockSamples == {ClockList[i] : i \in 1..NumClock}

\* Values of the debug panel's controls
MultiplierInputs == {Num(Q(2, 1)), Num(Q(-1, 1)), NaN}
ForceTimeInputs == {<<>>, <<"0", "0", ":", "3", "0">>}
ForceSeasonInputs == {"auto", "Winter"}
TriStateInputs == {"null", "true", "false"}
\* the values the selects are changed to in a session
MoonSelectValues == {"null", "true"}
HalloweenSelectValues == {"null", "true"}

DefaultDebugState ==
    [multiplier |-> QOne, forceTime |-> <<>>, forceFullMoon |-> "null",
     forceSeason |-> "auto", forceHalloween |-> "null"]

EmptyData == <<>>

-----------------------------------------------------------------------------
(* app.js and the handlers                                                 *)

\* The clock one minute later
NextMinute(t) == (t + 1) % 1440

TotalReads(batch) == ReadsBefore(batch, Len(batch) + 1)

\* Where the wall clock may pass a minute boundary during a recomputation:
\* nowhere (0), or before its cross-th read of the clock
CrossPoints ==
    IF debugState.forceTime = <<>> /\ NextMinute(now) \in ClockSamples
    THEN 0..TotalReads(monsters)
    ELSE {0}

\* appState.spottedMonstersData = calculateSpottedMonsters(appState.monsters):
\* no assignment when the call throws
Assigned(calculatedData) ==
    IF calculatedData = TypeError THEN spottedMonstersData ELSE calculatedData

\* recalculateAndRedraw, for the state the handler has just written
Recalculate(date, debug) ==
    \E cross \in CrossPoints :
        LET env == Env(date, debug, now, NextMinute(now), cross)
        IN  /\ spottedMonstersData' = Assigned(calculateSpottedMonsters(monsters, env))
            /\ lastRun' = <<env>>
            /\ now' = IF cross > 0 THEN NextMinute(now) ELSE now

\* initializeApp, from the loaded data on: the first recalculateAndRedraw
initializeApp ==
    /\ phase = "loaded"
    /\ phase' = "running"
    /\ Recalculate(currentDate, debugState)
    /\ UNCHANGED <<monsters, currentDate, debugState, call>>

\* array destructuring: the i-th element, undefined (NaN as a number) past the end
Element(numbers, i) == IF i <= Len(numbers) THEN numbers[i] ELSE NaN

\* new Date(Date.UTC(year, month - 1, day)): midnight UTC of the day for
\* numbers in range, the Invalid Date when an argument is NaN
DateUTC(year, month, day) ==
    IF year.nan \/ month.nan \/ day.nan THEN InvalidDate
    ELSE [y |-> year.v, m |-> (month.v - 1) + 1, d |-> day.v, tod |-> 0, nan |-> FALSE]

\* const [year, month, day] = dateInput.value.split('-').map(Number);
\* new Date(Date.UTC(year, month - 1, day))
InputDate(value) ==
    LET numbers == [i \in 1..Len(Split(value, "-")) |-> Number(Split(value, "-")[i])]
    IN  DateUTC(Element(numbers, 1), Element(numbers, 2), Element(numbers, 3))

\* listeners.js: the 'change' listener of the historical date input
HistoricalDateChange(value) ==
    /\ phase = "running"
    /\ currentDate' = InputDate(value)
    /\ Recalculate(currentDate', debugState)
    /\ UNCHANGED <<monsters, debugState, phase, call>>

\* debugPanel.js: the 'input' listener of the multiplier field (parseFloat's result)
DebugMultiplierInput(multiplier) ==
    /\ phase = "running"
    /\ IF ~multiplier.nan /\ QLe(QZero, multiplier.v)
       THEN /\ debugState' = [debugState EXCEPT !.multiplier = multiplier.v]
            /\ Recalculate(currentDate, debugState')
            /\ UNCHANGED <<monsters, currentDate, phase, call>>
       ELSE UNCHANGED vars

\* A listener that stores the season and does not call the redraw callback
SeasonSelectChangeNoRedraw(value) ==
    /\ phase = "running"
    /\ debugState' = [debugState EXCEPT !.forceSeason = value]
    /\ UNCHANGED <<monsters, currentDate, now, spottedMonstersData, lastRun, phase, call>>

SeasonSelectChange(value) ==
    /\ phase = "running"
    /\ debugState' = [debugState EXCEPT !.forceSeason = value]
    /\ Recalculate(currentDate, debugState')
    /\ UNCHANGED <<monsters, currentDate, phase, call>>

\* value === 'null' ? null : JSON.parse(value)
MoonSelectChange(value) ==
    /\ phase = "running"
    /\ debugState' = [debugState EXCEPT !.forceFullMoon = value]
    /\ Recalculate(currentDate, debugState')
    /\ UNCHANGED <<monsters, currentDate, phase, call>>

HalloweenSelectChange(value) ==
    /\ phase = "running"
    /\ debugState' = [debugState EXCEPT !.forceHalloween = value]
    /\ Recalculate(currentDate, debugState')
    /\ UNCHANGED <<monsters, currentDate, phase, call>>

\* debugState.forceTime = timeInput.value || null
TimeInput(value) ==
    /\ phase = "running"
    /\ debugState' = [debugState EXCEPT !.forceTime = value]
    /\ Recalculate(currentDate, debugState')
    /\ UNCHANGED <<monsters, currentDate, phase, call>>

resetDebugState ==
    /\ phase = "running"
    /\ debugState' = DefaultDebugState
    /\ Recalculate(currentDate, debugState')
    /\ UNCHANGED <<monsters, currentDate, phase, call>>

\* monsterPanel.js: the visibility toggle (updateMap and updateUrlHash, no recomputation)
VisibilityToggle(k) ==
    /\ phase = "running"
    /\ monsters' = [monsters EXCEPT ![k].state.isEnabled = ~monsters[k].state.isEnabled]
    /\ UNCHANGED <<currentDate, debugState, now, spottedMonstersData, lastRun, phase, call>>

\* Time passes between events: the clock reaches a later sample
Tick ==
    /\ \E t \in ClockSamples : t > now /\ now' = t
    /\ UNCHANGED <<monsters, currentDate, debugState, spottedMonstersData, lastRun, phase, call>>

NoCall == [fn |-> "none", arg |-> <<>>, ret |-> <<>>]
NoRun == <<>>

\* The monsters the application loads
NumAppMonsters == 1
AppMonsterData == SubSeq(MonsterData, 1, NumAppMonsters)

Init ==
    /\ monsters = LoadMonsters(AppMonsterData)
    /\ currentDate \in Dates
    /\ debugState = DefaultDebugState
    /\ now \in ClockSamples
    /\ spottedMonstersData = EmptyData
    /\ lastRun = NoRun
    /\ phase = "loaded"
    /\ call = NoCall

Next ==
    \/ initializeApp
    \/ \E value \in DateInputs : HistoricalDateChange(value)
    \/ \E v \in MultiplierInputs : DebugMultiplierInput(v)
    \/ \E v \in ForceSeasonInputs : SeasonSelectChange(v)
    \/ \E v \in MoonSelectValues : MoonSelectChange(v)
    \/ \E v \in HalloweenSelectValues : HalloweenSelectChange(v)
    \/ \E v \in ForceTimeInputs : TimeInput(v)
    \/ resetDebugState
    \/ \E k \in 1..Len(monsters) : VisibilityToggle(k)
    \/ Tick

Spec == Init /\ [][Next]_vars

-----------------------------------------------------------------------------
(* Properties of the application's recomputations, stated on Spec.          *)

\* C1: determinism.  For a fixed application date, entity set and override
\* set, two invocations of the recomputation return identical output records
\* for every entity, whatever the wall-clock instants at which they run: once
\* the output has been computed, a step that leaves the date, the entities
\* and the overrides as they are leaves the output as it is.
C1_Determinism ==
    [][(/\ phase = "running"
        /\ monsters' = monsters
        /\ currentDate' = currentDate
        /\ debugState' = debugState) => spottedMonstersData' = spottedMonstersData]_vars

\* A date seed of the form YYYY-MM-DD
WellFormedSeed(seed) ==
    /\ Len(seed) = 10
    /\ seed[5] = "-"
    /\ seed[8] = "-"
    /\ \A i \in (1..10) \ {5, 8} : IsDigit(seed[i])

\* C12: an invalid date supplied by the user (an empty or malformed value of
\* the historical-date input) is rejected before it reaches the core: after
\* any sequence of date changes appState.currentDate is a valid date and the
\* date seed is a well-formed YYYY-MM-DD string.
C12_InvalidDateRejected ==
    /\ ~currentDate.nan
    /\ WellFormedSeed(getDateSeed(currentDate))

\* This step ran one full recomputation: the environment the last
\* recomputation read is the state the step leaves and the wall clock the
\* step started at, and the output is the one computed over all entities
\* from it
RecomputedInStep ==
    /\ lastRun' # NoRun
    /\ lastRun'[1].date = currentDate'
    /\ lastRun'[1].debug = debugState'
    /\ lastRun'[1].now = now
    /\ spottedMonstersData' = calculateSpottedMonsters(monsters', lastRun'[1])

-----------------------------------------------------------------------------
(* Calls of calculateSpottedMonsters on its own: the batch, the date, the   *)
(* overrides and the clock are drawn, the action applies the function.      *)

\* Batches: every entity alone, and the pairs 1-2, 3-4, ... in both orders
NumBatchMonsters == 4
BatchIndexes ==
    {<<i>> : i \in 1..NumBatchMonsters}
        \cup {<<i, i + 1>> : i \in {j \in 1..(NumBatchMonsters - 1) : j % 2 = 1}}
        \cup {<<i + 1, i>> : i \in {j \in 1..(NumBatchMonsters - 1) : j % 2 = 1}}
BatchOf(indexes) == LoadMonsters([k \in 1..Len(indexes) |-> MonsterData[indexes[k]]])

NumRuleDates == 5
RuleDates == {DateList[i] : i \in 1..NumRuleDates}

RuleClockList == <<720, 1259, 30, 1305, 1100>>
NumRuleClock == 3
RuleClock == {RuleClockList[i] : i \in 1..NumRuleClock}

\* Override sets: at most MaxOverrides controls away from their defaults
MaxOverrides == 2
OverrideValues ==
    [multiplier : {QOne, Q(2, 1), QZero},
     forceTime : {<<>>, <<"0", "0", ":", "3", "0">>, <<"2", "2", ":", "3", "0">>},
     forceFullMoon : TriStateInputs,
     forceSeason : {"auto", "Winter"},
     forceHalloween : TriStateInputs]
RuleDebugStates ==
    {d \in OverrideValues :
        Cardinality({f \in DOMAIN d : d[f] # DefaultDebugState[f]}) <= MaxOverrides}

\* The clock of one call: it stays at t, or passes to the next minute before
\* the cross-th read (with a forced time the clock's reading is discarded:
\* one reading stands for all)
RuleEnvs(batch) ==
    {Env(date, debug, t, NextMinute(t), 0) :
        date \in RuleDates,
        debug \in {d \in RuleDebugStates : d.forceTime = <<>>},
        t \in RuleClock}
    \cup {Env(date, debug, RuleClockList[1], NextMinute(RuleClockList[1]), 0) :
            date \in RuleDates,
            debug \in {d \in RuleDebugStates : d.forceTime # <<>>}}
    \cup {Env(date, DefaultDebugState, t, NextMinute(t), cross) :
            date \in RuleDates, t \in RuleClock, cross \in 1..TotalReads(batch)}

RuleCalls ==
    UNION {{[fn |-> "calculateSpottedMonsters", arg |-> [monsters |-> batch, env |-> env],
             ret |-> <<>>] : env \in RuleEnvs(batch)} :
           batch \in {BatchOf(indexes) : indexes \in BatchIndexes}}

InitRules ==
    /\ call \in RuleCalls
    /\ monsters = LoadMonsters(AppMonsterData)
    /\ currentDate = DateList[1]
    /\ debugState = DefaultDebugState
    /\ now = ClockList[1]
    /\ spottedMonstersData = EmptyData
    /\ lastRun = NoRun
    /\ phase = "loaded"

CallCalculateSpottedMonsters ==
    /\ call.fn = "calculateSpottedMonsters"
    /\ call.ret = <<>>
    /\ call' = [call EXCEPT !.ret = <<calculateSpottedMonsters(call.arg.monsters, call.arg.env)>>]
    /\ UNCHANGED <<monsters, currentDate, debugState, now, spottedMonstersData, lastRun, phase>>

NextRules == CallCalculateSpottedMonsters

SpecRules == InitRules /\ [][NextRules]_vars

-----------------------------------------------------------------------------
(* Calls of getTimeMultiplier on its own, at every minute of the day.       *)

KnownPeriods == {PeriodNames[i] : i \in 1..Len(PeriodNames)}

\* Active-time lists: each period alone, "any", and lists with several
\* names, an unknown name, a repeated name, or no name
ActiveTimeLists ==
    {<<p>> : p \in KnownPeriods}
        \cup {<<"any">>, <<"Night", "any">>, <<"Night", "Late Night">>, <<"Evening", "Dusk">>,
              <<"Dusk">>, <<>>, <<"Morning", "Morning">>, <<"Midnight", "Morning", "Night">>}

MinutesOfDay == 0..(24 * 60 - 1)

TimeCalls ==
    {[fn |-> "getTimeMultiplier",
      arg |-> [monsterActiveTimes |-> a,
               env |-> Env(DateList[1], DefaultDebugState, t, NextMinute(t), 0)],
      ret |-> <<>>] : a \in ActiveTimeLists, t \in MinutesOfDay}

InitTime ==
    /\ call \in TimeCalls
    /\ monsters = LoadMonsters(AppMonsterData)
    /\ currentDate = DateList[1]
    /\ debugState = DefaultDebugState
    /\ now = ClockList[1]
    /\ spottedMonstersData = EmptyData
    /\ lastRun = NoRun
    /\ phase = "loaded"

CallGetTimeMultiplier ==
    /\ call.fn = "getTimeMultiplier"
    /\ call.ret = <<>>
    /\ call' = [call EXCEPT !.ret = <<getTimeMultiplier(call.arg.monsterActiveTimes, call.arg.env,
                                                        ReadPos.timeMultiplier)>>]
    /\ UNCHANGED <<monsters, currentDate, debugState, now, spottedMonstersData, lastRun, phase>>

NextTime == CallGetTimeMultiplier

SpecTime == InitTime /\ [][NextTime]_vars

\* The call has returned
TimeDone == call.fn = "getTimeMultiplier" /\ call.ret # <<>>
CallTimes == call.arg.monsterActiveTimes
\* the current minute of the call
CallMinute == call.arg.env.now
Contains(period, m) == period.start <= m /\ m <= period.end

\* 1 + (peakMultiplier - 1) * progress^2, progress from start to peak before
\* the peak and from end to peak after it
Ramp(period, m) ==
    IF m <= period.peak
    THEN QAdd(<<1, 1>>, QMul(QSub(period.multiplier, <<1, 1>>),
                             Q((m - period.start) * (m - period.start),
                               (period.peak - period.start) * (period.peak - period.start))))
    ELSE QAdd(<<1, 1>>, QMul(QSub(period.multiplier, <<1, 1>>),
                             Q((period.end - m) * (period.end - m),
                               (period.end - period.peak) * (period.end - period.peak))))

Matching(list, m) ==
    {i \in 1..Len(list) : list[i] \in KnownPeriods /\ Contains(TIME_PERIODS[list[i]], m)}

\* C10: getTimeMultiplier returns 1 whenever the list contains "any";
\* otherwise the maximum ramp value over the named periods that contain the
\* current minute, and when none does (also when every name is unknown) the
\* inactive-time penalty 0.05, which lies strictly between 0 and 1.
C10_TimeMultiplier ==
    TimeDone =>
        /\ Includes(CallTimes, "any") => call.ret[1] = <<1, 1>>
        /\ (~Includes(CallTimes, "any") /\ Matching(CallTimes, CallMinute) # {}) =>
              /\ \E i \in Matching(CallTimes, CallMinute) :
                    call.ret[1] = Ramp(TIME_PERIODS[CallTimes[i]], CallMinute)
              /\ \A i \in Matching(CallTimes, CallMinute) :
                    QLe(Ramp(TIME_PERIODS[CallTimes[i]], CallMinute), call.ret[1])
        /\ (~Includes(CallTimes, "any") /\ Matching(CallTimes, CallMinute) = {}) =>
              /\ call.ret[1] = <<1, 20>>
              /\ QLt(<<0, 1>>, call.ret[1])
              /\ QLt(call.ret[1], <<1, 1>>)
        /\ call.ret[1] # <<0, 1>>

\* A list of a known and an unknown name, at a minute outside the known period
C10_Witness ==
    /\ TimeDone
    /\ CallTimes = <<"Evening", "Dusk">>
    /\ CallMinute = 720
    /\ call.ret[1] = <<1, 20>>

-----------------------------------------------------------------------------
(* Properties of calculateSpottedMonsters and calculateSpottingData,        *)
(* stated on the calls of SpecRules.                                        *)

\* The call has returned
RuleDone == call.fn = "calculateSpottedMonsters" /\ call.ret # <<>>
CallBatch == call.arg.monsters
CallEnv == call.arg.env
\* the output record of the k-th entity of the batch
CallOut(k) == call.ret[1][CallBatch[k].id]
CallBase(k) == ReadsBefore(CallBatch, k)
HasStep(breakdown, type) == \E i \in 1..Len(breakdown) : breakdown[i].type = type

\* The same clock readings for an entity computed alone as it had after
\* `base` earlier reads in the batch
AloneEnv(env, base) ==
    [env EXCEPT !.cross = IF env.cross = 0 THEN 0
                          ELSE IF env.cross > base THEN env.cross - base
                          ELSE 1]

\* C2: seed isolation.  The output record of an entity computed in a batch
\* with another entity of a different id, before or after it, equals the
\* record computed for that entity alone on the same date, with the same
\* overrides and the same readings of the clock.
C2_SeedIsolation ==
    RuleDone =>
        \A k \in 1..Len(CallBatch) :
            CallOut(k) = calculateSpottedMonsters(<<CallBatch[k]>>,
                                                  AloneEnv(CallEnv, CallBase(k)))[CallBatch[k].id]

\* A batch of two entities that both drew from their streams, the second one
\* also for placements
C2_Witness ==
    /\ RuleDone
    /\ Len(CallBatch) = 2
    /\ CallBatch[1].id # CallBatch[2].id
    /\ CallOut(1).draws > 0
    /\ CallOut(2).count > 0
    /\ CallOut(2).draws > maxSpotted

\* The declared restrictions of an entity that are unmet
Unmet(monster, env, base) ==
    IF Len(monster.restriction) = 0
    THEN [fullMoon |-> FALSE, dark |-> FALSE, night |-> FALSE]
    ELSE [fullMoon |-> monster.restriction[1].requiresFullMoon /\ ~isFullMoon(env),
          dark     |-> monster.restriction[1].requiresDark /\ ~isDark(env, base + ReadPos.dark),
          night    |-> monster.restriction[1].requiresNight /\ ~isNight(env, base + ReadPos.night)]
AnyUnmet(u) == u.fullMoon \/ u.dark \/ u.night
\* "Requires: " and the unmet restrictions, comma-joined
UnmetReason(u) ==
    CASE u.fullMoon /\ u.dark /\ u.night   -> <<"Requires: ", "Full Moon", ", ", "Darkness", ", ", "Night">>
      [] u.fullMoon /\ u.dark /\ ~u.night  -> <<"Requires: ", "Full Moon", ", ", "Darkness">>
      [] u.fullMoon /\ ~u.dark /\ u.night  -> <<"Requires: ", "Full Moon", ", ", "Night">>
      [] u.fullMoon /\ ~u.dark /\ ~u.night -> <<"Requires: ", "Full Moon">>
      [] ~u.fullMoon /\ u.dark /\ u.night  -> <<"Requires: ", "Darkness", ", ", "Night">>
      [] ~u.fullMoon /\ u.dark /\ ~u.night -> <<"Requires: ", "Darkness">>
      [] ~u.fullMoon /\ ~u.dark /\ u.night -> <<"Requires: ", "Night">>
      [] OTHER                             -> <<>>

\* C3: restriction short-circuit.  When Halloween is not active and a
\* declared restriction of the entity is unmet, the probability returned is
\* exactly 0, the event is null, the breakdown is exactly one `impossible`
\* step whose reason lists the unmet restrictions and only those,
\* comma-joined, and the simulation makes no random draw and reports count 0,
\* no locations and the likelihood "Impossible".
C3_RestrictionShortCircuit ==
    RuleDone =>
        \A k \in 1..Len(CallBatch) :
            (~isHalloween(CallEnv) /\ AnyUnmet(Unmet(CallBatch[k], CallEnv, CallBase(k)))) =>
                /\ CallOut(k).returned = <<0, 1>>
                /\ CallOut(k).event = "null"
                /\ Len(CallOut(k).breakdown) = 1
                /\ CallOut(k).breakdown[1].type = "impossible"
                /\ CallOut(k).breakdown[1].reason
                       = UnmetReason(Unmet(CallBatch[k], CallEnv, CallBase(k)))
                /\ CallOut(k).draws = 0
                /\ CallOut(k).count = 0
                /\ CallOut(k).locations = <<>>
                /\ CallOut(k).likelihood = "Impossible"

\* An entity with two unmet restrictions among three evaluated, not on Halloween
C3_Witness ==
    /\ RuleDone
    /\ ~isHalloween(CallEnv)
    /\ \E k \in 1..Len(CallBatch) :
          /\ Unmet(CallBatch[k], CallEnv, CallBase(k)).fullMoon
          /\ Unmet(CallBatch[k], CallEnv, CallBase(k)).night
          /\ CallOut(k).likelihood = "Impossible"

\* min(max(x, 0), 1)
Clamped(x) == IF QLt(x, <<0, 1>>) THEN <<0, 1>> ELSE IF QLt(<<1, 1>>, x) THEN <<1, 1>> ELSE x

\* The breakdown of the Halloween branch for the probability p
HalloweenBreakdown(p, debugMultiplier) ==
    <<Step("final", "Final Chance", "", p),
      Step("multiplier", "Global Multiplier", "", <<5, 2>>)>>
    \o (IF debugMultiplier # <<1, 1>>
        THEN <<Step("multiplier", "Debug Multiplier", "", debugMultiplier)>>
        ELSE <<>>)

\* C4: Halloween override.  Whenever isHalloween() is true, every entity
\* gets the probability clamp(base * 2.5 * debugMultiplier, 0, 1) and the
\* event "halloween", whatever its seasons, active times, bonuses, penalties
\* and overrides, and its breakdown is the `final` step, the "Global
\* Multiplier" step and, when the debug multiplier is not 1, the debug step.
C4_HalloweenOverride ==
    RuleDone =>
        \A k \in 1..Len(CallBatch) :
            isHalloween(CallEnv) =>
                /\ CallOut(k).returned =
                       Clamped(QMul(QMul(CallBatch[k].spottingChance, <<5, 2>>),
                                    CallEnv.debug.multiplier))
                /\ CallOut(k).event = "halloween"
                /\ CallOut(k).breakdown =
                       HalloweenBreakdown(CallOut(k).returned, CallEnv.debug.multiplier)

\* Halloween with a debug multiplier for an entity that has bonuses and
\* penalties, the product clamped from above
C4_Witness ==
    /\ RuleDone
    /\ isHalloween(CallEnv)
    /\ CallEnv.debug.multiplier = <<2, 1>>
    /\ \E k \in 1..Len(CallBatch) :
          /\ Len(CallBatch[k].bonuses) > 0
          /\ Len(CallBatch[k].penalties) > 0
          /\ QLt(<<1, 1>>, QMul(CallBatch[k].spottingChance, <<5, 1>>))
          /\ CallOut(k).returned = <<1, 1>>

\* C5: Halloween lifts restrictions.  When isHalloween() is true, an entity
\* whose restriction is unmet still gets a breakdown without an `impossible`
\* step, and its likelihood is never "Impossible".
C5_HalloweenLiftsRestrictions ==
    RuleDone =>
        \A k \in 1..Len(CallBatch) :
            isHalloween(CallEnv) =>
                /\ ~HasStep(CallOut(k).breakdown, "impossible")
                /\ CallOut(k).likelihood # "Impossible"

\* Halloween for an entity with an unmet restriction
C5_Witness ==
    /\ RuleDone
    /\ isHalloween(CallEnv)
    /\ \E k \in 1..Len(CallBatch) :
          /\ AnyUnmet(Unmet(CallBatch[k], CallEnv, CallBase(k)))
          /\ CallOut(k).count > 0

\* The bonus steps of a breakdown
BonusSteps(breakdown) == {i \in 1..Len(breakdown) : breakdown[i].type = "bonus"}

\* C6: clamp.  The probability calculateSpottingData returns lies in [0, 1],
\* and every `final` step carries the returned probability.
C6_Clamp ==
    RuleDone =>
        \A k \in 1..Len(CallBatch) :
            /\ QLe(<<0, 1>>, CallOut(k).returned)
            /\ QLe(CallOut(k).returned, <<1, 1>>)
            /\ \A i \in 1..Len(CallOut(k).breakdown) :
                  CallOut(k).breakdown[i].type = "final" =>
                      CallOut(k).breakdown[i].value = CallOut(k).returned

\* An overridden bonus of negative magnitude, larger than the base chance,
\* was applied, and the result is 0
C6_Witness ==
    /\ RuleDone
    /\ \E k \in 1..Len(CallBatch) :
          /\ \E i \in BonusSteps(CallOut(k).breakdown) :
                QLt(QAdd(CallOut(k).breakdown[i].value, CallBatch[k].spottingChance), <<0, 1>>)
          /\ ~HasStep(CallOut(k).breakdown, "penalty")
          /\ CallOut(k).returned = <<0, 1>>
          /\ CallOut(k).breakdown[1].type = "final"

\* The band of a sighting count
Band(c) ==
    CASE c = 0       -> "Very Low"
      [] c \in 1..2  -> "Low"
      [] c \in 3..5  -> "Medium"
      [] OTHER       -> "High"

\* C7: likelihood bands.  A count produced with a positive probability is in
\* 0..40 and gets "Very Low" for 0, "Low" for 1..2, "Medium" for 3..5 and
\* "High" from 6 on; "Impossible" is emitted if and only if the breakdown
\* has an `impossible` step, so a zero probability without one is "Very Low".
C7_LikelihoodBands ==
    RuleDone =>
        \A k \in 1..Len(CallBatch) :
            /\ QLt(<<0, 1>>, CallOut(k).returned) =>
                  /\ CallOut(k).count \in 0..40
                  /\ CallOut(k).likelihood = Band(CallOut(k).count)
            /\ CallOut(k).likelihood = "Impossible" <=> HasStep(CallOut(k).breakdown, "impossible")
            /\ (CallOut(k).returned = <<0, 1>> /\ ~HasStep(CallOut(k).breakdown, "impossible")) =>
                  CallOut(k).likelihood = "Very Low"

\* A batch with a count on a band's edge next to an impossible entity
C7_Witness ==
    /\ RuleDone
    /\ \E k \in 1..Len(CallBatch) :
          /\ CallOut(k).count \in {2, 3, 5, 6}
          /\ CallOut(k).likelihood \in {"Low", "Medium", "High"}
    /\ \E k \in 1..Len(CallBatch) :
          /\ CallOut(k).returned = <<0, 1>>
          /\ CallOut(k).likelihood = "Impossible"

\* C8: breakdown shape.  A breakdown is either exactly one `impossible` step
\* with probability 0, or it has no `impossible` step, its first step is
\* `final` and it has exactly one `final` step.
C8_BreakdownShape ==
    RuleDone =>
        \A k \in 1..Len(CallBatch) :
            \/ /\ Len(CallOut(k).breakdown) = 1
               /\ CallOut(k).breakdown[1].type = "impossible"
               /\ CallOut(k).returned = <<0, 1>>
            \/ /\ ~HasStep(CallOut(k).breakdown, "impossible")
               /\ Len(CallOut(k).breakdown) >= 1
               /\ CallOut(k).breakdown[1].type = "final"
               /\ Cardinality({i \in 1..Len(CallOut(k).breakdown) :
                                  CallOut(k).breakdown[i].type = "final"}) = 1

\* A batch with an impossible entity and one whose pipeline recorded every
\* kind of step
C8_Witness ==
    /\ RuleDone
    /\ \E k \in 1..Len(CallBatch) : HasStep(CallOut(k).breakdown, "impossible")
    /\ \E k \in 1..Len(CallBatch) :
          /\ HasStep(CallOut(k).breakdown, "base")
          /\ HasStep(CallOut(k).breakdown, "multiplier")
          /\ HasStep(CallOut(k).breakdown, "bonus")
          /\ HasStep(CallOut(k).breakdown, "penalty")

-----------------------------------------------------------------------------
(* Calls of the calendar/time oracle and of calculateSpottingData on their  *)
(* own.                                                                     *)

\* What the functions of time.js that read the simulated time return in one
\* environment
TimeReadings(monsterActiveTimes, env) ==
    [time           |-> getCurrentTime(env, 1),
     period         |-> getCurrentPeriodName(env, 1),
     night          |-> isNight(env, 1),
     dark           |-> isDark(env, 1),
     witchingHour   |-> isWitchingHour(env, 1),
     timeMultiplier |-> getTimeMultiplier(monsterActiveTimes, env, 1)]

\* What the functions of time.js that read the application date return
CalendarReadings(env) ==
    [seed      |-> getDateSeed(env.date),
     icon      |-> getMoonPhaseIcon(env.date),
     fullMoon  |-> isFullMoon(env),
     halloween |-> isHalloween(env),
     midsummer |-> isMidsummer(env),
     yule      |-> isYule(env),
     season    |-> getCurrentSeason(env)]

\* Forced times: none, two well-formed ones, and strings that do not parse:
\* a word, digits without a colon, letters for the minutes
ForceTimeValues ==
    {<<>>, <<"0", "0", ":", "3", "0">>, <<"2", "2", ":", "3", "0">>,
     <<"n", "o", "o", "n">>, <<"1", "2", "3", "0">>, <<"1", "2", ":", "x", "x">>}
OracleClockList == <<30, 720, 1100, 1305, 359, 1439>>
NumOracleClock == 4
OracleClock == {OracleClockList[i] : i \in 1..NumOracleClock}
OracleActiveTimes == {<<"Night", "Late Night">>, <<"Day">>, <<"any">>, <<"Midnight", "Evening">>}

\* The first and the last minute of every configured period
PeriodEdges ==
    UNION {{TIME_PERIODS[p].start, TIME_PERIODS[p].end} : p \in DOMAIN TIME_PERIODS}

TimeReadingCalls ==
    {[fn |-> "timeReadings",
      arg |-> [monsterActiveTimes |-> a,
               env |-> Env(DateList[1], [DefaultDebugState EXCEPT !.forceTime = f],
                           t, NextMinute(t), 0)],
      ret |-> <<>>] :
        a \in OracleActiveTimes, f \in ForceTimeValues, t \in OracleClock \cup PeriodEdges}
    \cup {[fn |-> "timeReadings",
           arg |-> [monsterActiveTimes |-> <<"any">>,
                    env |-> Env(DateList[1], DefaultDebugState, t, NextMinute(t), 0)],
           ret |-> <<>>] : t \in MinutesOfDay}

\* Application dates: the days 1..28 of every month of the years listed, at
\* the times of day listed (the load instant, or midnight UTC once a date was
\* chosen)
CalendarYearList == <<2024, 1999, 2000, 1970>>
NumCalendarYears == 3
CalendarYears == {CalendarYearList[i] : i \in 1..NumCalendarYears}
CalendarTimesOfDay == {0, 719, 1439}
CalendarDates ==
    {[y |-> y, m |-> m, d |-> d, tod |-> tod, nan |-> FALSE] :
        y \in CalendarYears, m \in 1..12, d \in 1..28, tod \in CalendarTimesOfDay}
CalendarDebugStates ==
    {DefaultDebugState,
     [DefaultDebugState EXCEPT !.forceFullMoon = "true"],
     [DefaultDebugState EXCEPT !.forceSeason = "Winter", !.forceHalloween = "false"]}

CalendarCalls ==
    {[fn |-> "calendarReadings",
      arg |-> [env |-> Env(date, debug, ClockList[1], NextMinute(ClockList[1]), 0)],
      ret |-> <<>>] : date \in CalendarDates, debug \in CalendarDebugStates}

\* Entities whose lists name modifiers or periods that do not exist
UnknownNameData ==
    {MonsterData[3],
     MonsterData[4],
     [MonsterData[1] EXCEPT !.bonuses = <<"fullMoon", "fullmoon", "midnight">>],
     [MonsterData[1] EXCEPT !.activeTime = <<"constructor", "Night">>],
     [MonsterData[1] EXCEPT !.penalties = <<"day", "constructor">>],
     [MonsterData[2] EXCEPT !.bonuses = <<"toString", "witchingHour">>]}
NumSpottingDates == 2
SpottingDates == {DateList[i] : i \in 1..NumSpottingDates}
SpottingDebugStates ==
    {DefaultDebugState,
     [DefaultDebugState EXCEPT !.forceFullMoon = "true"],
     [DefaultDebugState EXCEPT !.multiplier = Q(2, 1)]}

SpottingCalls ==
    {[fn |-> "calculateSpottingData",
      arg |-> [monster |-> Monster(data), env |-> Env(date, debug, t, NextMinute(t), 0)],
      ret |-> <<>>] :
        data \in UnknownNameData, date \in SpottingDates, debug \in SpottingDebugStates,
        t \in OracleClock}

InitCalls ==
    /\ call \in TimeReadingCalls \cup CalendarCalls \cup SpottingCalls
    /\ monsters = LoadMonsters(AppMonsterData)
    /\ currentDate = DateList[1]
    /\ debugState = DefaultDebugState
    /\ now = ClockList[1]
    /\ spottedMonstersData = EmptyData
    /\ lastRun = NoRun
    /\ phase = "loaded"

CallTimeReadings ==
    /\ call.fn = "timeReadings"
    /\ call.ret = <<>>
    /\ call' = [call EXCEPT !.ret = <<TimeReadings(call.arg.monsterActiveTimes, call.arg.env)>>]
    /\ UNCHANGED <<monsters, currentDate, debugState, now, spottedMonstersData, lastRun, phase>>

CallCalendarReadings ==
    /\ call.fn = "calendarReadings"
    /\ call.ret = <<>>
    /\ call' = [call EXCEPT !.ret = <<CalendarReadings(call.arg.env)>>]
    /\ UNCHANGED <<monsters, currentDate, debugState, now, spottedMonstersData, lastRun, phase>>

CallCalculateSpottingData ==
    /\ call.fn = "calculateSpottingData"
    /\ call.ret = <<>>
    /\ call' = [call EXCEPT !.ret = <<calculateSpottingData(call.arg.monster, call.arg.env, 0)>>]
    /\ UNCHANGED <<monsters, currentDate, debugState, now, spottedMonstersData, lastRun, phase>>

NextCalls ==
    \/ CallTimeReadings
    \/ CallCalendarReadings
    \/ CallCalculateSpottingData

SpecCalls == InitCalls /\ [][NextCalls]_vars

\* A call of the kind has returned
Returned(fn) == call.fn = fn /\ call.ret # <<>>

\* HH:MM with hours below 24 and minutes below 60
WellFormedTime(str) ==
    /\ Len(str) = 5
    /\ str[3] = ":"
    /\ \A i \in {1, 2, 4, 5} : IsDigit(str[i])
    /\ DigitValue(str[1]) * 10 + DigitValue(str[2]) < 24
    /\ DigitValue(str[4]) * 10 + DigitValue(str[5]) < 60

\* C11: a malformed forced time-of-day does not yield an invalid simulated
\* time: getCurrentTime falls back to the caller's local wall-clock time of
\* day, so the simulated time, the period, the night, dark and witching-hour
\* predicates and the time multiplier are those of the local time (those
\* returned with no forced time).
C11_MalformedTimeFallsBack ==
    (/\ Returned("timeReadings")
     /\ call.arg.env.debug.forceTime # <<>>
     /\ ~WellFormedTime(call.arg.env.debug.forceTime)) =>
        /\ ~call.ret[1].time.nan
        /\ call.ret[1] = TimeReadings(call.arg.monsterActiveTimes,
                                      [call.arg.env EXCEPT !.debug.forceTime = <<>>])

\* The five predicates of the claim among the readings
DatePredicates(readings) ==
    [fullMoon |-> readings.fullMoon, halloween |-> readings.halloween,
     midsummer |-> readings.midsummer, yule |-> readings.yule, season |-> readings.season]

\* C15: for application dates with the same calendar seed and the same
\* overrides, isFullMoon, isHalloween, isMidsummer, isYule and
\* getCurrentSeason return the same values: what they return at any time of
\* day of the application date is what they return at midnight UTC of it.
C15_CalendarDateOnly ==
    Returned("calendarReadings") =>
        /\ call.ret[1].seed = getDateSeed([call.arg.env.date EXCEPT !.tod = 0])
        /\ DatePredicates(call.ret[1])
               = DatePredicates(CalendarReadings([call.arg.env EXCEPT !.date.tod = 0]))

\* C16: for every application date, also before the reference new moon of
\* 2000-01-06 18:14 UTC, getMoonPhaseIcon returns one of the 8 moon-phase
\* symbols.
C16_MoonIconDefined ==
    Returned("calendarReadings") =>
        \E i \in 1..8 : call.ret[1].icon = moonIcons[i]

\* The names of the list that the table knows
KnownNames(list, table) == SelectSeq(list, LAMBDA name : name \in DOMAIN table)
\* The entity with the unknown names removed from its lists
WithoutUnknownNames(monster) ==
    [monster EXCEPT !.bonuses = KnownNames(monster.bonuses, MODIFIER_LABELS.bonuses),
                    !.penalties = KnownNames(monster.penalties, MODIFIER_LABELS.penalties),
                    !.activeTime = SelectSeq(monster.activeTime,
                                             LAMBDA name : name = "any" \/ name \in KnownPeriods)]

\* C18: fails closed.  For an entity whose bonus, penalty or active-time lists
\* contain names that are not in the modifier registry or the time-period
\* table, calculateSpottingData raises no exception and returns the
\* probability and the breakdown it returns with the unknown names removed.
C18_UnknownNamesInactive ==
    Returned("calculateSpottingData") =>
        /\ call.ret[1] # TypeError
        /\ call.ret[1] = calculateSpottingData(WithoutUnknownNames(call.arg.monster),
                                               call.arg.env, 0)

-----------------------------------------------------------------------------
(* One recomputation at the grain of the turns of monsters.forEach: the     *)
(* handler's position is in `phase` ("calculating" while                    *)
(* calculateSpottedMonsters runs) and its frame in `call`.  No other event  *)
(* is dispatched before the handler returns.                                *)

NumRunMonsters == 2
RunMonsterData == SubSeq(MonsterData, 1, NumRunMonsters)

\* The frame of calculateSpottedMonsters(monsters): its local calculatedData
\* and the index of the next turn of the forEach
Frame(date, debug, cross) ==
    [fn |-> "calculateSpottedMonsters",
     arg |-> [monsters |-> monsters, env |-> Env(date, debug, now, NextMinute(now), cross)],
     ret |-> <<>>, calculatedData |-> EmptyData, next |-> 1]

\* recalculateAndRedraw is entered: calculateSpottedMonsters starts
BeginRecalculate(date, debug) ==
    /\ phase' = "calculating"
    /\ \E cross \in CrossPoints : call' = Frame(date, debug, cross)

\* initializeApp: the first recalculateAndRedraw
RunInitializeApp ==
    /\ phase = "loaded"
    /\ BeginRecalculate(currentDate, debugState)
    /\ UNCHANGED <<monsters, currentDate, debugState, now, spottedMonstersData, lastRun>>

RunHistoricalDateChange(value) ==
    /\ phase = "running"
    /\ currentDate' = InputDate(value)
    /\ BeginRecalculate(currentDate', debugState)
    /\ UNCHANGED <<monsters, debugState, now, spottedMonstersData, lastRun>>

RunSeasonSelectChange(value) ==
    /\ phase = "running"
    /\ debugState' = [debugState EXCEPT !.forceSeason = value]
    /\ BeginRecalculate(currentDate, debugState')
    /\ UNCHANGED <<monsters, currentDate, now, spottedMonstersData, lastRun>>

\* calculatedData[id] = record
Put(calculatedData, id, record) ==
    [x \in DOMAIN calculatedData \cup {id} |-> IF x = id THEN record ELSE calculatedData[x]]

\* The record of the turn the frame is at
TurnRecord(frame) ==
    SimulateMonster(frame.arg.monsters, frame.next, frame.arg.env,
                    ReadsBefore(frame.arg.monsters, frame.next))

\* A turn that writes its record into appState.spottedMonstersData as well
ForEachMonsterInPlace ==
    /\ phase = "calculating"
    /\ call.next <= Len(call.arg.monsters)
    /\ call' = [call EXCEPT !.calculatedData =
                                Put(@, call.arg.monsters[call.next].id, TurnRecord(call)),
                            !.next = @ + 1]
    /\ spottedMonstersData' =
           Put(spottedMonstersData, call.arg.monsters[call.next].id, TurnRecord(call))
    /\ UNCHANGED <<monsters, currentDate, debugState, now, lastRun, phase>>

\* One turn of monsters.forEach: calculatedData[monster.id] = { ... }
ForEachMonster ==
    /\ phase = "calculating"
    /\ call.next <= Len(call.arg.monsters)
    /\ call' = [call EXCEPT !.calculatedData =
                                Put(@, call.arg.monsters[call.next].id, TurnRecord(call)),
                            !.next = @ + 1]
    /\ UNCHANGED <<monsters, currentDate, debugState, now, spottedMonstersData, lastRun, phase>>

\* return calculatedData; appState.spottedMonstersData = <the returned value>;
\* the UI updates follow and the handler returns
AssignSpottedMonstersData ==
    /\ phase = "calculating"
    /\ call.next > Len(call.arg.monsters)
    /\ spottedMonstersData' = call.calculatedData
    /\ lastRun' = <<call.arg.env>>
    /\ now' = IF call.arg.env.cross > 0 THEN call.arg.env.now2 ELSE now
    /\ phase' = "running"
    /\ call' = NoCall
    /\ UNCHANGED <<monsters, currentDate, debugState>>

\* Time passes between events
RunTick ==
    /\ phase = "running"
    /\ Tick

InitRun ==
    /\ monsters = LoadMonsters(RunMonsterData)
    /\ currentDate \in Dates
    /\ debugState = DefaultDebugState
    /\ now \in ClockSamples
    /\ spottedMonstersData = EmptyData
    /\ lastRun = NoRun
    /\ phase = "loaded"
    /\ call = NoCall

NextRun ==
    \/ RunInitializeApp
    \/ \E value \in DateInputs : RunHistoricalDateChange(value)
    \/ \E value \in ForceSeasonInputs : RunSeasonSelectChange(value)
    \/ ForEachMonster
    \/ AssignSpottedMonstersData
    \/ RunTick

SpecRun == InitRun /\ [][NextRun]_vars

\* C14: atomic replacement.  At every point of an execution, also between
\* the turns of a recomputation in progress, appState.spottedMonstersData is
\* either empty (before the first recomputation) or the complete record set,
\* one record per entity, that one recomputation computed from one
\* environment: never a set in which some entities are updated and others
\* are not.
C14_AtomicReplacement ==
    IF lastRun = NoRun
    THEN spottedMonstersData = EmptyData
    ELSE /\ DOMAIN spottedMonstersData = {monsters[k].id : k \in 1..Len(monsters)}
         /\ spottedMonstersData = calculateSpottedMonsters(monsters, lastRun[1])

\* A recomputation is in progress: the record of the first entity is computed
\* and differs from the one in appState.spottedMonstersData, the record of
\* the second is not computed yet
C14_Witness ==
    /\ phase = "calculating"
    /\ call.next = 2
    /\ Len(monsters) >= 2
    /\ spottedMonstersData # EmptyData
    /\ call.calculatedData[monsters[1].id] # spottedMonstersData[monsters[1].id]

-----------------------------------------------------------------------------
(* Properties of the modifier magnitudes and of the location pool, stated   *)
(* on the calls of SpecRules.                                               *)

\* The table of a step's type and the modifier name of its label
TableOf(type) == IF type = "bonus" THEN "bonuses" ELSE "penalties"
NameOfLabel(table, label) ==
    CHOOSE name \in DOMAIN MODIFIER_LABELS[table] : MODIFIER_LABELS[table][name] = label
\* The entity's override for the modifier when it declares one, else the
\* global default
Magnitude(monster, table, name) ==
    IF name \in DOMAIN monster.overrides[table]
    THEN monster.overrides[table][name]
    ELSE GLOBAL_MODIFIERS[table][name]

\* C17: modifier magnitude.  The magnitude recorded (and applied) for an
\* active bonus or penalty is the entity's override for that modifier
\* whenever it declares one, also an override of 0, and the global default
\* only when it declares none.
C17_OverrideMagnitude ==
    RuleDone =>
        \A k \in 1..Len(CallBatch) :
            \A i \in 1..Len(CallOut(k).breakdown) :
                CallOut(k).breakdown[i].type \in {"bonus", "penalty"} =>
                    CallOut(k).breakdown[i].value =
                        Magnitude(CallBatch[k], TableOf(CallOut(k).breakdown[i].type),
                                  NameOfLabel(TableOf(CallOut(k).breakdown[i].type),
                                              CallOut(k).breakdown[i].label))

\* The fields of an output record other than its locations
OtherFields(record) ==
    [count |-> record.count, likelihood |-> record.likelihood,
     currentChance |-> record.currentChance, breakdown |-> record.breakdown,
     event |-> record.event]
\* The entity with a habitat that has locations
WithHabitat(monster) == [monster EXCEPT !.locations = << <<"T">> >>]

\* C19: when an entity's sighting count is greater than 0 but its habitat
\* identifiers resolve to an empty location pool, the recomputation does not
\* crash and the output distinguishes the case: the record is not just the
\* record of an entity with locations, with the locations left out.
C19_EmptyPoolObservable ==
    RuleDone =>
        \A k \in 1..Len(CallBatch) :
            (CallOut(k).count > 0 /\ Len(LocationPoolOf(CallBatch[k])) = 0) =>
                OtherFields(CallOut(k)) #
                    OtherFields(calculateSpottedMonsters(
                                    <<WithHabitat(CallBatch[k])>>,
                                    AloneEnv(CallEnv, CallBase(k)))[CallBatch[k].id])

\* The codes the habitat identifiers resolve to
ResolvedCodes(monster) ==
    UNION {IF Len(monster.locations[i]) = 1 /\ monster.locations[i][1] \in DOMAIN LOCATION_GROUPS
           THEN {LOCATION_GROUPS[monster.locations[i][1]][j] :
                    j \in 1..Len(LOCATION_GROUPS[monster.locations[i][1]])}
           ELSE {monster.locations[i]} : i \in 1..Len(monster.locations)}
\* A location matches a specific code by its full code, a class-level code by
\* its feature class
MatchesCode(loc, code) ==
    IF Len(code) >= 2 THEN <<loc.featureClass, loc.featureCode>> = code
    ELSE loc.featureClass = code[1]
\* How often the location is in the pool
TimesInPool(pool, loc) == Cardinality({j \in 1..Len(pool) : pool[j].geonameid = loc.geonameid})

\* C20: the candidate pool is a union.  For an entity that was sighted, every
\* location that matches at least one resolved code is in the pool exactly
\* once, also when it matches several resolved codes, and no other location
\* is in it.
C20_PoolIsUnion ==
    RuleDone =>
        \A k \in 1..Len(CallBatch) :
            CallOut(k).count > 0 =>
                \A n \in 1..Len(allLocations) :
                    TimesInPool(LocationPoolOf(CallBatch[k]), allLocations[n]) =
                        IF \E code \in ResolvedCodes(CallBatch[k]) : MatchesCode(allLocations[n], code)
                        THEN 1 ELSE 0

-----------------------------------------------------------------------------
(* Claims about the time oracle, checked over SpecCalls.                    *)

\* The positions, in configured order, of the periods whose closed interval
\* [start, end] contains the minute
Containing(mins) ==
    {i \in 1..Len(PeriodNames) :
        /\ TIME_PERIODS[PeriodNames[i]].start <= mins
        /\ mins <= TIME_PERIODS[PeriodNames[i]].end}

\* C21: getCurrentPeriodName returns the first period, in configured order,
\* whose closed interval [start, end] contains the simulated time's minutes
\* past midnight, and "Day" when no period contains it or the simulated time
\* is invalid.
C21_CurrentPeriod ==
    Returned("timeReadings") =>
        call.ret[1].period =
            IF call.ret[1].time.nan
               \/ Containing(call.ret[1].time.h * 60 + call.ret[1].time.m) = {}
            THEN "Day"
            ELSE PeriodNames[CHOOSE i \in Containing(call.ret[1].time.h * 60 + call.ret[1].time.m) :
                                \A j \in Containing(call.ret[1].time.h * 60 + call.ret[1].time.m) : i <= j]

\* The last minute of "Evening" was read from the wall clock and named
C21_Witness ==
    /\ Returned("timeReadings")
    /\ call.arg.env.debug.forceTime = <<>>
    /\ call.ret[1].time = [nan |-> FALSE, h |-> 20, m |-> 59]
    /\ call.ret[1].period = "Evening"

-----------------------------------------------------------------------------
(* url.js: the state written to and read from the URL hash.  `call.arg` is  *)
(* window.location.hash and `call.ret` the state of a fresh application     *)
(* that was opened with it.                                                 *)

\* map.getCenter() and map.getZoom(), as updateUrlHash formats them
\* (toFixed(4)); the map is not moved in the model
MapView ==
    [lat  |-> <<"6", "2", ".", "0", "0", "0", "0">>,
     lng  |-> <<"1", "5", ".", "0", "0", "0", "0">>,
     zoom |-> <<"5">>]

\* appState.monsters.filter(m => !m.state.isEnabled).map(m => m.id)
DisabledIds(list) ==
    LET disabled == SelectSeq(list, LAMBDA monster : ~monster.state.isEnabled)
    IN  [k \in 1..Len(disabled) |-> disabled[k].id]

\* The hash without the hide parameter
updateUrlHashNoHide(list, date) ==
    <<"#">> \o Join(<< <<"l", "a", "t", "=">> \o MapView.lat,
                      <<"l", "n", "g", "=">> \o MapView.lng,
                      <<"z", "o", "o", "m", "=">> \o MapView.zoom,
                      <<"d", "a", "t", "e", "=">> \o getDateSeed(date) >>, <<"&">>)

\* updateUrlHash: the hash history.replaceState installs
updateUrlHash(list, date) ==
    <<"#">> \o Join(<< <<"l", "a", "t", "=">> \o MapView.lat,
                      <<"l", "n", "g", "=">> \o MapView.lng,
                      <<"z", "o", "o", "m", "=">> \o MapView.zoom,
                      <<"d", "a", "t", "e", "=">> \o getDateSeed(date) >>
                    \o (IF Len(DisabledIds(list)) > 0
                        THEN << <<"h", "i", "d", "e", "=">> \o Join(DisabledIds(list), <<",">>) >>
                        ELSE << >>),
                    <<"&">>)

\* The name and the value of one name=value pair (split at the first '=')
ParamName(pair) ==
    IF \A i \in 1..Len(pair) : pair[i] # "=" THEN pair
    ELSE SubSeq(pair, 1, (CHOOSE i \in 1..Len(pair) :
                              pair[i] = "=" /\ \A j \in 1..(i - 1) : pair[j] # "=") - 1)
ParamValue(pair) ==
    IF \A i \in 1..Len(pair) : pair[i] # "=" THEN <<>>
    ELSE SubSeq(pair, (CHOOSE i \in 1..Len(pair) :
                           pair[i] = "=" /\ \A j \in 1..(i - 1) : pair[j] # "=") + 1, Len(pair))

\* new URLSearchParams(str).get(name): the value of the first pair of that
\* name; null and the empty string are both <<>> (the callers test
\* truthiness).  The hashes written hold no '%' and no '+', so decoding leaves
\* names and values as they are.
ParamsGet(str, name) ==
    LET pairs == SelectSeq(Split(str, "&"), LAMBDA pair : ParamName(pair) = name)
    IN  IF Len(pairs) = 0 THEN <<>> ELSE ParamValue(pairs[1])

\* /^\d{4}-\d{2}-\d{2}$/.test(dateStr)
DateFormat(dateStr) ==
    /\ Len(dateStr) = 10
    /\ dateStr[5] = "-"
    /\ dateStr[8] = "-"
    /\ \A i \in {1, 2, 3, 4, 6, 7, 9, 10} : IsDigit(dateStr[i])

\* The date branch of parseUrlHash
HashDate(dateStr, date) ==
    IF dateStr # <<>> /\ DateFormat(dateStr) THEN InputDate(dateStr) ELSE date

\* The filter branch of parseUrlHash
HashFilters(hiddenMonsters, list) ==
    IF hiddenMonsters = <<>> THEN list
    ELSE [k \in 1..Len(list) |->
            IF Includes(Split(hiddenMonsters, ","), list[k].id)
            THEN [list[k] EXCEPT !.state.isEnabled = FALSE]
            ELSE list[k]]

\* parseUrlHash on the state of an application that has just loaded
parseUrlHash(hash, app) ==
    IF hash = <<>> THEN app
    ELSE [currentDate |-> HashDate(ParamsGet(Tail(hash), <<"d", "a", "t", "e">>), app.currentDate),
          monsters    |-> HashFilters(ParamsGet(Tail(hash), <<"h", "i", "d", "e">>), app.monsters)]

NumShareMonsters == 3
ShareMonsterData == SubSeq(MonsterData, 1, NumShareMonsters)
NumShareDates == 3
ShareDates == {DateList[i] : i \in 1..NumShareDates}
ShareDateInputs == {getDateSeed(d) : d \in ShareDates} \cup {<<>>}
\* new Date() when an application loads: a day at some time of day
LoadDates == {[d EXCEPT !.tod = tod] : d \in ShareDates, tod \in {0, 1000}}

\* The date listener: the new date, then updateUrlHash()
ShareDateChange(value) ==
    /\ currentDate' = InputDate(value)
    /\ call' = [fn |-> "share", arg |-> updateUrlHash(monsters, currentDate'), ret |-> <<>>]
    /\ UNCHANGED <<monsters, debugState, now, spottedMonstersData, lastRun, phase>>

\* The visibility toggle: the flag, then updateUrlHash()
ShareVisibilityToggle(k) ==
    /\ monsters' = [monsters EXCEPT ![k].state.isEnabled = ~monsters[k].state.isEnabled]
    /\ call' = [fn |-> "share", arg |-> updateUrlHash(monsters', currentDate), ret |-> <<>>]
    /\ UNCHANGED <<currentDate, debugState, now, spottedMonstersData, lastRun, phase>>

\* The share button: updateUrlHash(), then the URL is copied
ShareButtonClick ==
    /\ call.ret = <<>>
    /\ call' = [fn |-> "share", arg |-> updateUrlHash(monsters, currentDate), ret |-> <<>>]
    /\ call' # call
    /\ UNCHANGED <<monsters, currentDate, debugState, now, spottedMonstersData, lastRun, phase>>

\* Another application is started with the copied URL: loaded data, every
\* entity enabled, today's date, then parseUrlHash()
OpenSharedView(loadDate) ==
    /\ call.arg # <<>>
    /\ call.ret = <<>>
    /\ call' = [call EXCEPT !.ret = <<parseUrlHash(call.arg,
                                         [currentDate |-> loadDate,
                                          monsters |-> LoadMonsters(ShareMonsterData)])>>]
    /\ UNCHANGED <<monsters, currentDate, debugState, now, spottedMonstersData, lastRun, phase>>

InitShare ==
    /\ monsters = LoadMonsters(ShareMonsterData)
    /\ currentDate \in LoadDates
    /\ debugState = DefaultDebugState
    /\ now = ClockList[1]
    /\ spottedMonstersData = EmptyData
    /\ lastRun = NoRun
    /\ phase = "running"
    /\ call = [fn |-> "share", arg |-> <<>>, ret |-> <<>>]

NextShare ==
    \/ \E value \in ShareDateInputs : ShareDateChange(value)
    \/ \E k \in 1..Len(monsters) : ShareVisibilityToggle(k)
    \/ ShareButtonClick
    \/ \E loadDate \in LoadDates : OpenSharedView(loadDate)

SpecShare == InitShare /\ [][NextShare]_vars

\* The ids of the disabled entities, as a set
DisabledSet(list) == {list[k].id : k \in {i \in 1..Len(list) : ~list[i].state.isEnabled}}

\* C22: shareable view round trip.  In every state reachable from start-up,
\* a fresh application (all entities enabled) that reads the hash written by
\* updateUrlHash with parseUrlHash has the same calendar date (the same date
\* seed) and the same set of disabled entity ids as the application that
\* wrote it.
C22_ShareRoundTrip ==
    (call.fn = "share" /\ call.ret # <<>>) =>
        /\ getDateSeed(call.ret[1].currentDate) = getDateSeed(currentDate)
        /\ DisabledSet(call.ret[1].monsters) = DisabledSet(monsters)

-----------------------------------------------------------------------------
(* Claims about the probability pipeline, checked over SpecRules.           *)

RECURSIVE SumOf(_)
SumOf(values) == IF Len(values) = 0 THEN QZero ELSE QAdd(values[1], SumOf(Tail(values)))
RECURSIVE ProductOf(_)
ProductOf(values) == IF Len(values) = 0 THEN QOne ELSE QMul(values[1], ProductOf(Tail(values)))

\* The magnitudes of the modifiers of the list that are registered and whose
\* predicate holds when the pipeline evaluates it (the read at `first + i`)
ActiveMagnitudes(monster, type, list, env, first) ==
    LET active == {i \in 1..Len(list) :
                       /\ list[i] \in DOMAIN MODIFIER_LABELS[type]
                       /\ ModifierCondition(type, list[i], env, first + i)}
        values == [i \in 1..Len(list) |->
                       IF i \in active THEN <<ModifierValue(monster, list[i], type)>> ELSE <<>>]
    IN  Join(values, <<>>)

\* 0.5 out of season, 1 in season
SeasonFactor(monster, env) ==
    IF Includes(monster.activeSeasons, getCurrentSeason(env)) THEN QOne ELSE Q(1, 2)

\* (((base * s) * t) + sum of bonuses) * product of penalties * debugMultiplier
PipelineValue(monster, env, base) ==
    QMul(QMul(QAdd(QMul(QMul(monster.spottingChance, SeasonFactor(monster, env)),
                        getTimeMultiplier(monster.activeTime, env, base + ReadPos.timeMultiplier)),
                   SumOf(ActiveMagnitudes(monster, "bonuses", monster.bonuses, env, base + 5))),
              ProductOf(ActiveMagnitudes(monster, "penalties", monster.penalties, env,
                                         base + 5 + Len(monster.bonuses)))),
         env.debug.multiplier)

\* C23: pipeline result.  Outside Halloween and with all restrictions met,
\* the probability calculateSpottingData returns equals
\* clamp((((base * s) * t) + sum of the magnitudes of the active bonuses)
\*       * product of the magnitudes of the active penalties * debugMultiplier, 0, 1):
\* all active bonuses are added before any penalty multiplies.
C23_PipelineResult ==
    RuleDone =>
        \A k \in 1..Len(CallBatch) :
            (~isHalloween(CallEnv) /\ ~AnyUnmet(Unmet(CallBatch[k], CallEnv, CallBase(k)))) =>
                CallOut(k).returned = Clamped(PipelineValue(CallBatch[k], CallEnv, CallBase(k)))

\* An entity with a time multiplier, an active bonus and an active penalty
\* whose probability is not cut by the clamp
C23_Witness ==
    /\ RuleDone
    /\ ~isHalloween(CallEnv)
    /\ \E k \in 1..Len(CallBatch) :
          /\ HasStep(CallOut(k).breakdown, "base")
          /\ HasStep(CallOut(k).breakdown, "bonus")
          /\ HasStep(CallOut(k).breakdown, "penalty")
          /\ \E i \in 1..Len(CallOut(k).breakdown) : CallOut(k).breakdown[i].label = "Time"
          /\ QLt(QZero, CallOut(k).returned)
          /\ QLt(CallOut(k).returned, QOne)

\* The place of a step in the order base, season, time, bonuses, penalties,
\* debug multiplier (0 for the step types that have no place after `final`)
StepRank(step) ==
    CASE step.type = "base"                                              -> 1
      [] step.type = "multiplier" /\ step.label = "Season"               -> 2
      [] step.type = "multiplier" /\ step.label = "Time"                 -> 3
      [] step.type = "bonus"                                             -> 4
      [] step.type = "penalty"                                           -> 5
      [] step.type = "multiplier" /\ step.label = "Debug Multiplier"     -> 6
      [] OTHER                                                           -> 0

\* The labels of the registered names of a declared list, in declared order
DeclaredLabels(list, type) ==
    LET known == SelectSeq(list, LAMBDA name : name \in DOMAIN MODIFIER_LABELS[type])
    IN  [i \in 1..Len(known) |-> MODIFIER_LABELS[type][known[i]]]

\* The labels of the steps of the type, in the order of the breakdown
StepLabels(breakdown, type) ==
    LET steps == SelectSeq(breakdown, LAMBDA step : step.type = type)
    IN  [i \in 1..Len(steps) |-> steps[i].label]

\* The steps of the type are steps of declared modifiers, in declared order
InDeclaredOrder(breakdown, type, declared) ==
    StepLabels(breakdown, type) =
        SelectSeq(declared, LAMBDA label : Includes(StepLabels(breakdown, type), label))

RECURSIVE Replay(_, _, _)
\* The steps from the i-th on applied to acc: bonus steps add, multiplier and
\* penalty steps multiply
Replay(breakdown, i, acc) ==
    IF i > Len(breakdown) THEN acc
    ELSE Replay(breakdown, i + 1,
                IF breakdown[i].type = "bonus" THEN QAdd(acc, breakdown[i].value)
                ELSE QMul(acc, breakdown[i].value))

\* `final`, then `base`, then the other steps in their order; replaying them
\* from the base step's value and clamping gives the `final` step's value
Replayable(breakdown, monster) ==
    /\ Len(breakdown) >= 2
    /\ breakdown[1].type = "final"
    /\ breakdown[2].type = "base"
    /\ \A i \in 3..Len(breakdown) :
          /\ StepRank(breakdown[i]) >= 2
          /\ StepRank(breakdown[i - 1]) <= StepRank(breakdown[i])
          /\ StepRank(breakdown[i]) \in {2, 3, 6} => StepRank(breakdown[i - 1]) < StepRank(breakdown[i])
    /\ InDeclaredOrder(breakdown, "bonus", DeclaredLabels(monster.bonuses, "bonuses"))
    /\ InDeclaredOrder(breakdown, "penalty", DeclaredLabels(monster.penalties, "penalties"))
    /\ breakdown[1].value = Clamped(Replay(breakdown, 3, breakdown[2].value))

\* The Halloween breakdown: `final`, the "Global Multiplier" step and at most
\* the debug step, no `base` step; replaying it needs the entity's base
\* probability
HalloweenReplay(breakdown, monster) ==
    /\ ~HasStep(breakdown, "base")
    /\ \A i \in 2..Len(breakdown) : breakdown[i].type = "multiplier"
    /\ breakdown[1].value = Clamped(Replay(breakdown, 2, monster.spottingChance))

\* C24 as stated: replayable breakdown.  For every non-`impossible` result
\* the breakdown alone determines the final probability: after `final` come
\* base, season multiplier, time multiplier, bonuses in declared order,
\* penalties in declared order, debug multiplier, and applying them from the
\* `base` step's value and clamping to [0,1] gives the `final` step's value.
C24_ReplayableBreakdown ==
    RuleDone =>
        \A k \in 1..Len(CallBatch) :
            ~HasStep(CallOut(k).breakdown, "impossible") =>
                Replayable(CallOut(k).breakdown, CallBatch[k])

\* C24, amended: the breakdown of every result that is neither `impossible`
\* nor a Halloween result is replayable from its `base` step as stated; a
\* Halloween result's breakdown has no `base` step, and replaying it from the
\* entity's base probability gives the `final` step's value.
C24_ReplayOutsideHalloween ==
    RuleDone =>
        \A k \in 1..Len(CallBatch) :
            ~HasStep(CallOut(k).breakdown, "impossible") =>
                IF CallOut(k).event = "halloween"
                THEN HalloweenReplay(CallOut(k).breakdown, CallBatch[k])
                ELSE Replayable(CallOut(k).breakdown, CallBatch[k])

\* A result outside Halloween with a bonus step and the debug step, whose
\* replay is cut by the clamp
C24_Witness ==
    /\ RuleDone
    /\ \E k \in 1..Len(CallBatch) :
          /\ CallOut(k).event = "null"
          /\ HasStep(CallOut(k).breakdown, "bonus")
          /\ CallOut(k).breakdown[Len(CallOut(k).breakdown)].label = "Debug Multiplier"
          /\ Replay(CallOut(k).breakdown, 3, CallOut(k).breakdown[2].value) # CallOut(k).breakdown[1].value

-----------------------------------------------------------------------------
(* Claims about the simulation's use of the random stream, over SpecRules.  *)

\* The n-th value of the stream of the k-th entity of the call's batch
StreamValue(k, n) ==
    RngValue(RngState(seedrandom(getDateSeed(CallEnv.date) \o CallBatch[k].id), n))

\* The trials, among the first maxSpotted values, that count as a sighting
Successes(k, probability) == {i \in 1..maxSpotted : QLt(StreamValue(k, i), probability)}

\* The j-th placement is made from the three values after the trials and the
\* earlier placements: location index, latitude jitter, longitude jitter
PlacedFrom(k, j, pool, placement) ==
    /\ placement.geonameid =
           pool[QFloor(QMul(StreamValue(k, maxSpotted + 3 * (j - 1) + 1), QInt(Len(pool)))) + 1].geonameid
    /\ placement.lat =
           QAdd(placement.latitude, Jitter(StreamValue(k, maxSpotted + 3 * (j - 1) + 2)))
    /\ placement.lng =
           QAdd(placement.longitude, Jitter(StreamValue(k, maxSpotted + 3 * (j - 1) + 3)))

\* The accounting of one output record for the probability returned
DrawAccounting(k, out, pool) ==
    IF QLe(out.returned, QZero)
    THEN out.draws = 0 /\ out.count = 0
    ELSE /\ out.count = Cardinality(Successes(k, out.returned))
         /\ out.count \in 0..maxSpotted
         /\ out.draws = IF out.count > 0 /\ Len(pool) > 0
                        THEN maxSpotted + 3 * out.count
                        ELSE maxSpotted
         /\ (out.count > 0 /\ Len(pool) > 0) =>
                \A j \in 1..out.count : PlacedFrom(k, j, pool, out.locations[j])

\* C25: random-draw accounting.  Per entity and recomputation the stream is
\* consumed in this order and amount: no draw when the probability is <= 0;
\* otherwise exactly 40 trial draws, each a sighting iff the value drawn is
\* strictly less than the probability, followed, only when count > 0 and the
\* pool is not empty, by exactly 3 draws per sighting in the order location
\* index, latitude jitter, longitude jitter: 40 + 3 * count draws in all, or
\* 40 when the count is 0 or the pool is empty.
C25_DrawAccounting ==
    RuleDone =>
        \A k \in 1..Len(CallBatch) :
            DrawAccounting(k, CallOut(k), LocationPoolOf(CallBatch[k]))

\* A batch with an entity that made the trials and no placement for want of a
\* pool, or no sighting, and an entity that placed several sightings
C25_Witness ==
    /\ RuleDone
    /\ \E k \in 1..Len(CallBatch) : CallOut(k).draws = maxSpotted
    /\ \E k \in 1..Len(CallBatch) :
          /\ CallOut(k).count \in 2..(maxSpotted - 1)
          /\ CallOut(k).draws = maxSpotted + 3 * CallOut(k).count

\* The locations that match at least one of the entity's resolved codes
Habitat(monster) ==
    {n \in 1..Len(allLocations) :
        \E code \in ResolvedCodes(monster) : MatchesCode(allLocations[n], code)}

\* The placement is a copy of the n-th location, which is as it was loaded,
\* with a jittered position within 0.005 degrees of it
PlacementOf(placement, n) ==
    /\ placement.geonameid = allLocations[n].geonameid
    /\ placement.featureClass = allLocations[n].featureClass
    /\ placement.featureCode = allLocations[n].featureCode
    /\ placement.latitude = allLocations[n].latitude
    /\ placement.longitude = allLocations[n].longitude
    /\ QLe(QSub(allLocations[n].latitude, Q(5, 1000)), placement.lat)
    /\ QLe(placement.lat, QAdd(allLocations[n].latitude, Q(5, 1000)))
    /\ QLe(QSub(allLocations[n].longitude, Q(5, 1000)), placement.lng)
    /\ QLe(placement.lng, QAdd(allLocations[n].longitude, Q(5, 1000)))

\* C26: placement validity.  In every output record the number of locations
\* is the count when the entity's resolved pool is not empty and 0 otherwise,
\* and every placement's base location is a location of that pool, unmodified:
\* its full feature code or its feature class is one of the entity's resolved
\* habitat codes (the sampled index is within the pool).
C26_PlacementValidity ==
    RuleDone =>
        \A k \in 1..Len(CallBatch) :
            /\ Len(CallOut(k).locations) =
                   IF Habitat(CallBatch[k]) # {} THEN CallOut(k).count ELSE 0
            /\ \A j \in 1..Len(CallOut(k).locations) :
                   \E n \in Habitat(CallBatch[k]) : PlacementOf(CallOut(k).locations[j], n)

\* An entity whose habitat is a part of the locations placed several
\* sightings, at more than one location
C26_Witness ==
    /\ RuleDone
    /\ \E k \in 1..Len(CallBatch) :
          /\ Cardinality(Habitat(CallBatch[k])) \in 2..(Len(allLocations) - 1)
          /\ CallOut(k).count >= 3
          /\ \E i, j \in 1..Len(CallOut(k).locations) :
                CallOut(k).locations[i].geonameid # CallOut(k).locations[j].geonameid

\* C27: single time snapshot.  Within one recomputation every restriction
\* check, modifier predicate, time multiplier and period sub-label is
\* evaluated against the same simulated time, also when the wall clock passes
\* a minute or period boundary while the recomputation runs: the records of
\* the batch are those computed with the clock standing at one of its
\* readings (so the period named in a `Time` step is the period that produced
\* the step's value, and all entities are computed for the same time).
C27_SingleTimeSnapshot ==
    RuleDone =>
        \E t \in {CallEnv.now, CallEnv.now2} :
            call.ret[1] = calculateSpottedMonsters(CallBatch, [CallEnv EXCEPT !.now = t, !.cross = 0])

-----------------------------------------------------------------------------
(* map.js: the markers and the zoom buttons.  `call` holds the map module's *)
(* state: appState.zoomIteratorState, appState.monsterLayers (the markers   *)
(* of each layer), the buttons of the ZoomToMonsterControl with the         *)
(* monsterInfo each click handler closed over, and in `ret` the index the   *)
(* last click used.                                                         *)

\* updateMapMarkers: a layer for every enabled entity with a record whose
\* count is not 0, one marker per location, at the location's lat/lng
updateMapMarkers(list, data) ==
    [id \in {list[k].id : k \in {i \in 1..Len(list) :
                                    /\ list[i].state.isEnabled
                                    /\ list[i].id \in DOMAIN data
                                    /\ data[list[i].id].count # 0}} |->
        [j \in 1..Len(data[id].locations) |->
            <<data[id].locations[j].lat, data[id].locations[j].lng>>]]

\* The entities ZoomToMonsterControl.update makes a button for
WithButton(list, data) ==
    {list[k].id : k \in {i \in 1..Len(list) :
                            /\ list[i].state.isEnabled
                            /\ list[i].id \in DOMAIN data
                            /\ data[list[i].id].count > 0}}

\* ZoomToMonsterControl.update: the iterator starts at 0 where it is undefined
ZoomStateAfterUpdate(zoomIteratorState, list, data) ==
    [id \in DOMAIN zoomIteratorState \cup WithButton(list, data) |->
        IF id \in DOMAIN zoomIteratorState THEN zoomIteratorState[id] ELSE 0]

\* updateMap(): the markers, then the control
updateMap(zoomIteratorState, list, data) ==
    [fn |-> "map", arg |-> <<>>, ret |-> call.ret,
     zoomIteratorState |-> ZoomStateAfterUpdate(zoomIteratorState, list, data),
     monsterLayers |-> updateMapMarkers(list, data),
     buttons |-> [id \in WithButton(list, data) |-> data[id].locations]]

\* recalculateAndRedraw: appState.zoomIteratorState = {}, the recomputation,
\* updateMap(); when the recomputation throws, the reset is all that happened
ZoomRecalculate(date, debug) ==
    /\ spottedMonstersData' =
           Assigned(calculateSpottedMonsters(monsters, Env(date, debug, now, NextMinute(now), 0)))
    /\ lastRun' = <<Env(date, debug, now, NextMinute(now), 0)>>
    /\ call' = IF calculateSpottedMonsters(monsters, Env(date, debug, now, NextMinute(now), 0)) = TypeError
               THEN [call EXCEPT !.zoomIteratorState = <<>>]
               ELSE updateMap(<<>>, monsters, spottedMonstersData')

ZoomInitializeApp ==
    /\ phase = "loaded"
    /\ phase' = "running"
    /\ ZoomRecalculate(currentDate, debugState)
    /\ UNCHANGED <<monsters, currentDate, debugState, now>>

ZoomHistoricalDateChange(value) ==
    /\ phase = "running"
    /\ currentDate' = InputDate(value)
    /\ ZoomRecalculate(currentDate', debugState)
    /\ UNCHANGED <<monsters, debugState, now, phase>>

ZoomHalloweenSelectChange(value) ==
    /\ phase = "running"
    /\ debugState' = [debugState EXCEPT !.forceHalloween = value]
    /\ ZoomRecalculate(currentDate, debugState')
    /\ UNCHANGED <<monsters, currentDate, now, phase>>

\* The visibility toggle: the flag, then updateMap()
ZoomVisibilityToggle(k) ==
    /\ phase = "running"
    /\ monsters' = [monsters EXCEPT ![k].state.isEnabled = ~monsters[k].state.isEnabled]
    /\ call' = updateMap(call.zoomIteratorState, monsters', spottedMonstersData)
    /\ UNCHANGED <<currentDate, debugState, now, spottedMonstersData, lastRun, phase>>

\* appState.zoomIteratorState[monster.id] read where it is undefined
Undefined == -1

\* The index the click handler reads
CurrentIndex(id) ==
    IF id \in DOMAIN call.zoomIteratorState THEN call.zoomIteratorState[id] ELSE Undefined

\* What a click that got past the guard leaves in `ret`: the entity, the
\* index used, and a bit that tells this click from the one before
Use(id) ==
    <<[id |-> id, currentIndex |-> CurrentIndex(id),
       click |-> IF call.ret = <<>> THEN 0 ELSE 1 - call.ret[1].click]>>

\* A click handler that steps the iterator without wrapping around
ZoomButtonClickNoWrap(id) ==
    /\ phase = "running"
    /\ id \in DOMAIN call.buttons
    /\ IF id \notin DOMAIN call.monsterLayers \/ Len(call.monsterLayers[id]) = 0
       THEN UNCHANGED call
       ELSE call' = [call EXCEPT !.ret = Use(id),
                                 !.zoomIteratorState =
                                     [i \in DOMAIN call.zoomIteratorState \cup {id} |->
                                         IF i = id THEN CurrentIndex(id) + 1
                                         ELSE call.zoomIteratorState[i]]]
    /\ UNCHANGED <<monsters, currentDate, debugState, now, spottedMonstersData, lastRun, phase>>

\* The click handler of an entity's zoom button: no layer or no marker
\* returns; else locations[currentIndex] and markers[currentIndex] are used
\* (targetLocation.lat throws where the index is undefined or out of range)
\* and the iterator steps to (currentIndex + 1) % monsterInfo.locations.length
ZoomButtonClick(id) ==
    /\ phase = "running"
    /\ id \in DOMAIN call.buttons
    /\ IF id \notin DOMAIN call.monsterLayers \/ Len(call.monsterLayers[id]) = 0
       THEN UNCHANGED call
       ELSE IF CurrentIndex(id) \notin 0..(Len(call.buttons[id]) - 1)
       THEN call' = [call EXCEPT !.ret = Use(id)]
       ELSE call' = [call EXCEPT !.ret = Use(id),
                                 !.zoomIteratorState =
                                     [i \in DOMAIN call.zoomIteratorState \cup {id} |->
                                         IF i = id THEN (CurrentIndex(id) + 1) % Len(call.buttons[id])
                                         ELSE call.zoomIteratorState[i]]]
    /\ UNCHANGED <<monsters, currentDate, debugState, now, spottedMonstersData, lastRun, phase>>

\* The entities of the map model: one without locations for its sightings
\* (draug), the others with placements
ZoomMonsterList == <<MonsterData[4], MonsterData[1], MonsterData[2]>>
NumZoomMonsters == 2
ZoomMonsterData == SubSeq(ZoomMonsterList, 1, NumZoomMonsters)
NumZoomDates == 2
ZoomDateInputs == {getDateSeed(DateList[i]) : i \in 1..NumZoomDates}

InitZoom ==
    /\ monsters = LoadMonsters(ZoomMonsterData)
    /\ currentDate = DateList[1]
    /\ debugState = DefaultDebugState
    /\ now = ClockList[5]
    /\ spottedMonstersData = EmptyData
    /\ lastRun = NoRun
    /\ phase = "loaded"
    /\ call = [fn |-> "map", arg |-> <<>>, ret |-> <<>>,
               zoomIteratorState |-> <<>>, monsterLayers |-> <<>>, buttons |-> <<>>]

NextZoom ==
    \/ ZoomInitializeApp
    \/ \E value \in ZoomDateInputs : ZoomHistoricalDateChange(value)
    \/ \E value \in HalloweenSelectValues : ZoomHalloweenSelectChange(value)
    \/ \E k \in 1..Len(monsters) : ZoomVisibilityToggle(k)
    \/ \E k \in 1..Len(monsters) : ZoomButtonClick(monsters[k].id)

SpecZoom == InitZoom /\ [][NextZoom]_vars

\* The step is a click that used the iterator as an index
ClickUsedIndex == call.fn = "map" /\ call'.ret # call.ret

-----------------------------------------------------------------------------
(* The periods and the predicates of the time of day, over SpecCalls.       *)

\* The periods of the night
NightPeriods == {"Night", "Midnight", "Late Night", "Early Morning"}

\* C29: the configured periods partition the day.  Every minute 0..1439 lies
\* in exactly one period's closed interval [start, end] and each period has
\* start <= peak <= end, so for a valid time getCurrentPeriodName names the
\* period that contains it and never falls back; isWitchingHour() holds
\* exactly when the period is "Midnight", and isNight() exactly when the
\* period is Night, Midnight, Late Night or Early Morning, and it implies
\* isDark().
C29_PeriodsPartitionDay ==
    (Returned("timeReadings") /\ ~call.ret[1].time.nan) =>
        /\ Cardinality(Containing(call.ret[1].time.h * 60 + call.ret[1].time.m)) = 1
        /\ \A p \in DOMAIN TIME_PERIODS :
              /\ TIME_PERIODS[p].start <= TIME_PERIODS[p].peak
              /\ TIME_PERIODS[p].peak <= TIME_PERIODS[p].end
        /\ call.ret[1].period \in DOMAIN TIME_PERIODS
        /\ TIME_PERIODS[call.ret[1].period].start <= call.ret[1].time.h * 60 + call.ret[1].time.m
        /\ call.ret[1].time.h * 60 + call.ret[1].time.m <= TIME_PERIODS[call.ret[1].period].end
        /\ call.ret[1].witchingHour <=> (call.ret[1].period = "Midnight")
        /\ call.ret[1].night <=> (call.ret[1].period \in NightPeriods)
        /\ call.ret[1].night => call.ret[1].dark

\* The last minute of the night was read: 05:59, "Early Morning"
C29_Witness ==
    /\ Returned("timeReadings")
    /\ call.ret[1].time = [nan |-> FALSE, h |-> 5, m |-> 59]
    /\ call.ret[1].period = "Early Morning"
    /\ call.ret[1].night
    /\ call.ret[1].dark
    /\ ~call.ret[1].witchingHour

-----------------------------------------------------------------------------
(* The sighting count as a function of the probability, over SpecRules.     *)

\* Debug multipliers that scale the probability of a call down and up
ScaleMultipliers == {Q(1, 2), Q(2, 1)}

\* The record of the k-th entity of the call, computed alone for the same
\* date seed, id and clock readings with the debug multiplier d
Scaled(k, d) ==
    calculateSpottedMonsters(<<CallBatch[k]>>,
                             [AloneEnv(CallEnv, CallBase(k)) EXCEPT !.debug.multiplier = d])[CallBatch[k].id]

\* The counts of two records are ordered as their probabilities are
OrderedAs(low, high) == QLe(low.returned, high.returned) => low.count <= high.count

\* C30: monotonicity in the probability.  For a fixed date seed and entity id
\* (hence a fixed random stream) the sighting count is non-decreasing in the
\* final probability: if p1 <= p2 then count(p1) <= count(p2); and the count
\* is 40, the likelihood "High", when the probability is 1.
C30_CountMonotone ==
    RuleDone =>
        \A k \in 1..Len(CallBatch) :
            /\ \A d \in ScaleMultipliers :
                  /\ OrderedAs(Scaled(k, d), CallOut(k))
                  /\ OrderedAs(CallOut(k), Scaled(k, d))
            /\ CallOut(k).returned = QOne =>
                  (CallOut(k).count = maxSpotted /\ CallOut(k).likelihood = "High")

\* An entity with the probability 1 and 40 sightings, and fewer sightings,
\* not none, for half that probability
C30_Witness ==
    /\ RuleDone
    /\ \E k \in 1..Len(CallBatch) :
          /\ CallOut(k).returned = QOne
          /\ CallOut(k).count = maxSpotted
          /\ CallEnv.debug.multiplier = QOne
          /\ Scaled(k, Q(1, 2)).returned = Q(1, 2)
          /\ Scaled(k, Q(1, 2)).count \in 1..(maxSpotted - 1)

====
